---- MODULE Spec2Model ----
(***************************************************************************)
(* Model of the GitHub coralization pipeline of coral_cli:                 *)
(*   coral_cli/coralizer/github_coralizer.py  (GitHubCoralizer)            *)
(*   coral_cli/cli.py                         (coralize_github)            *)
(*                                                                         *)
(* Text is modelled by what the code does with it.  File contents are      *)
(* known by their length in characters; the context blob is the sequence   *)
(* of pieces appended to it, each with the file it comes from and its      *)
(* length, so that len(code_context) is the sum of the pieces.             *)
(***************************************************************************)
EXTENDS Integers, Sequences, FiniteSets, TLC

VARIABLES
    \* ---- _get_code_context ----
    repo_files,       \* the working directory: path -> [kind, size]
    ctx_pc,           \* position in _get_code_context
    ctx_i,            \* index of the next priority file
    ctx_todo,         \* rglob('*.py') results not yet yielded
    ctx_cur,          \* the path handed to the last add_content call
    code_context,     \* the blob: sequence of appended pieces
    total_chars,      \* the running counter
    files_read,
    processed_files,
    ctx_printed       \* messages printed by _get_code_context

ctxVars == <<repo_files, ctx_pc, ctx_i, ctx_todo, ctx_cur, code_context,
             total_chars, files_read, processed_files, ctx_printed>>

VARIABLES
    \* ---- _get_file_tree ----
    tree_in,          \* the directory tree that os.walk traverses
    tree_pc,
    tree_walk,        \* what os.walk has still to yield, in its order
    tree_str,         \* the summary: sequence of appended lines
    file_count,
    tree_printed

treeVars == <<tree_in, tree_pc, tree_walk, tree_str, file_count, tree_printed>>

VARIABLES
    \* ---- _parse_generated_code ----
    response_content, \* the agent's reply, as a sequence of tokens
    parse_pc,
    parse_result,     \* <<>> is None, <<text>> is the returned string
    parse_printed

parseVars == <<response_content, parse_pc, parse_result, parse_printed>>

VARIABLES
    \* ---- generate_dockerfile ----
    dock_in,          \* which paths exist under repo_path
    dock_pc,
    dockerfile,       \* the returned text, as a sequence of lines
    dock_printed

dockVars == <<dock_in, dock_pc, dockerfile, dock_printed>>

VARIABLES
    \* ---- the coralize-github command ----
    pc,               \* where the command is
    run_mode,         \* --run: "docker", "local" or anything else
    output_dir,       \* --output-dir was given
    agent_id,         \* "None" when --agent-id was not given
    temp_dir,         \* coralizer.temp_dir: "None" or the path
    dir_exists,       \* the path made by mkdtemp exists on disk
    exc,              \* the exception that is propagating, or "none"
    exit_status,      \* "running", then the process exit status
    printed,          \* what the command has printed, in order
    ops,              \* the external operations started, in order
    cl_ret,           \* where the running cleanup() call returns to
    retries           \* cleanup()'s local counter

pipeVars == <<pc, run_mode, output_dir, agent_id, temp_dir, dir_exists, exc,
              exit_status, printed, ops, cl_ret, retries>>

VARIABLES
    \* ---- several coralize-github --run docker commands at once ----
    req_pc,           \* where each request is
    req_agent_id,     \* each request's --agent-id
    req_temp_dir,     \* each coralizer's temp_dir: "None" or the path
    tmp_dirs,         \* the directories that exist under the temp root
    images,           \* the Docker daemon's tags: [tag, builder]
    containers,       \* the daemon's containers: [name, owner, image]
    docker_cmds       \* the docker commands issued: [req, op, arg]

reqVars == <<req_pc, req_agent_id, req_temp_dir, tmp_dirs, images,
             containers, docker_cmds>>

vars == <<ctxVars, treeVars, parseVars, dockVars, pipeVars, reqVars>>

notCtx == <<treeVars, parseVars, dockVars, pipeVars, reqVars>>
notTree == <<ctxVars, parseVars, dockVars, pipeVars, reqVars>>
notParse == <<ctxVars, treeVars, dockVars, pipeVars, reqVars>>
notDock == <<ctxVars, treeVars, parseVars, pipeVars, reqVars>>
notPipe == <<ctxVars, treeVars, parseVars, dockVars, reqVars>>
notReq == <<ctxVars, treeVars, parseVars, dockVars, pipeVars>>

-----------------------------------------------------------------------------
(* Program constants *)

MAX_CODE_CONTEXT_CHARS == 15000
MAX_TREE_CHARS == 2000

priority_files ==
    <<"main.py", "app.py", "agent.py", "run.py",
      "requirements.txt", "pyproject.toml", "setup.py">>

-----------------------------------------------------------------------------
(* Helpers on sequences *)

RECURSIVE SumLen(_)
SumLen(s) == IF s = <<>> THEN 0 ELSE Head(s).len + SumLen(Tail(s))

Range(s) == {s[k] : k \in DOMAIN s}

-----------------------------------------------------------------------------
(* _get_code_context                                                       *)

\* f"\n--- File: {filename_for_header} ---\n"
HeaderLen(name) == Len("\n--- File: ") + Len(name) + Len(" ---\n")

\* paths that may exist in the modelled working directories
CtxPaths == {"main.py", "requirements.txt", "setup.py", "utils.py", ".git/hook.py"}

\* repo_path.rglob('*.py') matches these; the set of paths under .git
PyPaths == {"main.py", "setup.py", "utils.py", ".git/hook.py"}
InDotGit(p) == p = ".git/hook.py"

\* content lengths: empty, a bit under half the budget, and the two lengths
\* around the point where main.py with its header fills the budget exactly
HalfFile == (MAX_CODE_CONTEXT_CHARS \div 2) - 500
CtxSizes == {0, HalfFile,
             MAX_CODE_CONTEXT_CHARS - HeaderLen("main.py"),
             MAX_CODE_CONTEXT_CHARS - HeaderLen("main.py") + 1}

\* kind: "absent" (no such path), "dir" (exists but is_file() is false),
\* "file" (readable), "unreadable" (read_text raises)
FileStates ==
    [kind : {"absent", "dir"}, size : {0}]
    \cup [kind : {"unreadable"}, size : {0}]
    \cup [kind : {"file"}, size : CtxSizes]

Absent == [kind |-> "absent", size |-> 0]

FileOf(p) == IF p \in DOMAIN repo_files THEN repo_files[p] ELSE Absent

is_file(p) == FileOf(p).kind \in {"file", "unreadable"}

SkipWarning(name) == <<"Warning: Skipping content of", name, "due to context limit.">>
ReadWarning(name) == <<"Warning: Could not read file", name>>
RemainingWarning == <<"Warning: Skipping remaining files due to context limit.">>
EmptyWarning == <<"Warning: No readable code files found or context limit too small.">>

\* the nonlocal state add_content works on
CtxState == [code_context |-> code_context, total_chars |-> total_chars,
             files_read |-> files_read, processed_files |-> processed_files,
             printed |-> ctx_printed]

\* add_content with the header left out of the budget test
add_content_header_unbudgeted(st, filepath, filename_for_header) ==
    IF is_file(filepath) /\ filepath \notin st.processed_files /\ FileOf(filepath).kind = "file"
    THEN LET content == FileOf(filepath).size
             header  == HeaderLen(filename_for_header)
         IN IF st.total_chars + content <= MAX_CODE_CONTEXT_CHARS
            THEN [st EXCEPT
                     !.code_context = @ \o
                         << [file |-> filename_for_header, part |-> "header", len |-> header],
                            [file |-> filename_for_header, part |-> "content", len |-> content] >>,
                     !.total_chars = @ + content + header,
                     !.files_read = @ + 1,
                     !.processed_files = @ \cup {filepath}]
                 @@ [ret |-> TRUE]
            ELSE [st EXCEPT !.printed = Append(@, SkipWarning(filename_for_header))]
                 @@ [ret |-> FALSE]
    ELSE st @@ [ret |-> TRUE]

\* add_content that fills the rest of the budget with the start of a file
\* that does not fit
add_content_truncating(st, filepath, filename_for_header) ==
    IF is_file(filepath) /\ filepath \notin st.processed_files /\ FileOf(filepath).kind = "file"
    THEN LET content == FileOf(filepath).size
             header  == HeaderLen(filename_for_header)
             room    == MAX_CODE_CONTEXT_CHARS - st.total_chars - header
             taken   == IF content <= room THEN content ELSE room
         IN IF room >= 0
            THEN [st EXCEPT
                     !.code_context = @ \o
                         << [file |-> filename_for_header, part |-> "header", len |-> header],
                            [file |-> filename_for_header, part |-> "content", len |-> taken] >>,
                     !.total_chars = @ + taken + header,
                     !.files_read = @ + 1,
                     !.processed_files = @ \cup {filepath}]
                 @@ [ret |-> (content <= room)]
            ELSE [st EXCEPT !.printed = Append(@, SkipWarning(filename_for_header))]
                 @@ [ret |-> FALSE]
    ELSE st @@ [ret |-> TRUE]

\* add_content that reports a file it could not read like a file that did
\* not fit
add_content_read_error_stops(st, filepath, filename_for_header) ==
    IF is_file(filepath) /\ filepath \notin st.processed_files
    THEN IF FileOf(filepath).kind = "unreadable"
         THEN [st EXCEPT !.printed = Append(@, ReadWarning(filepath))]
                  @@ [ret |-> FALSE]
         ELSE LET content == FileOf(filepath).size
                  header  == HeaderLen(filename_for_header)
              IN IF st.total_chars + content + header <= MAX_CODE_CONTEXT_CHARS
                 THEN [st EXCEPT
                          !.code_context = @ \o
                              << [file |-> filename_for_header, part |-> "header", len |-> header],
                                 [file |-> filename_for_header, part |-> "content", len |-> content] >>,
                          !.total_chars = @ + content + header,
                          !.files_read = @ + 1,
                          !.processed_files = @ \cup {filepath}]
                      @@ [ret |-> TRUE]
                 ELSE [st EXCEPT !.printed = Append(@, SkipWarning(filename_for_header))]
                      @@ [ret |-> FALSE]
    ELSE st @@ [ret |-> TRUE]

\* add_content(filepath, filename_for_header): the new state and the return value
add_content(st, filepath, filename_for_header) ==
    IF is_file(filepath) /\ filepath \notin st.processed_files
    THEN IF FileOf(filepath).kind = "unreadable"
         THEN \* except Exception: warning, then falls to the last return
              [st EXCEPT !.printed = Append(@, ReadWarning(filepath))]
                  @@ [ret |-> TRUE]
         ELSE LET content == FileOf(filepath).size
                  header  == HeaderLen(filename_for_header)
              IN IF st.total_chars + content + header <= MAX_CODE_CONTEXT_CHARS
                 THEN [st EXCEPT
                          !.code_context = @ \o
                              << [file |-> filename_for_header, part |-> "header", len |-> header],
                                 [file |-> filename_for_header, part |-> "content", len |-> content] >>,
                          !.total_chars = @ + content + header,
                          !.files_read = @ + 1,
                          !.processed_files = @ \cup {filepath}]
                      @@ [ret |-> TRUE]
                 ELSE [st EXCEPT !.printed = Append(@, SkipWarning(filename_for_header))]
                      @@ [ret |-> FALSE]
    ELSE st @@ [ret |-> TRUE]

CtxStore(r) ==
    /\ code_context' = r.code_context
    /\ total_chars' = r.total_chars
    /\ files_read' = r.files_read
    /\ processed_files' = r.processed_files

\* for filename in priority_files: if not add_content(...): break
CtxPriorityStep ==
    /\ ctx_pc = "priority"
    /\ ctx_i <= Len(priority_files)
    /\ LET filename == priority_files[ctx_i]
           r == add_content(CtxState, filename, filename)
       IN /\ CtxStore(r)
          /\ ctx_printed' = r.printed
          /\ ctx_cur' = filename
          /\ ctx_i' = ctx_i + 1
          /\ ctx_pc' = IF r.ret THEN "priority" ELSE "after_priority"
    /\ UNCHANGED <<repo_files, ctx_todo>>
    /\ UNCHANGED notCtx

\* the loop ran out of priority files
CtxPriorityEnd ==
    /\ ctx_pc = "priority"
    /\ ctx_i > Len(priority_files)
    /\ ctx_pc' = "after_priority"
    /\ UNCHANGED <<repo_files, ctx_i, ctx_todo, ctx_cur, code_context, total_chars,
                   files_read, processed_files, ctx_printed>>
    /\ UNCHANGED notCtx

\* if total_chars < MAX_CODE_CONTEXT_CHARS: for filepath in repo_path.rglob('*.py')
CtxEnterOthers ==
    /\ ctx_pc = "after_priority"
    /\ ctx_pc' = IF total_chars < MAX_CODE_CONTEXT_CHARS THEN "others" ELSE "report"
    /\ ctx_todo' = {p \in PyPaths : FileOf(p).kind # "absent"}
    /\ UNCHANGED <<repo_files, ctx_i, ctx_cur, code_context, total_chars,
                   files_read, processed_files, ctx_printed>>
    /\ UNCHANGED notCtx

\* one iteration of the rglob loop; rglob yields in directory order, which is
\* not fixed, so any remaining path may come next
CtxOtherStep ==
    /\ ctx_pc = "others"
    /\ \E filepath \in ctx_todo :
         /\ ctx_todo' = ctx_todo \ {filepath}
         /\ ctx_cur' = filepath
         /\ IF InDotGit(filepath) \/ filepath \in processed_files
            THEN /\ UNCHANGED <<code_context, total_chars, files_read,
                                processed_files, ctx_printed, ctx_pc>>
            ELSE LET r == add_content(CtxState, filepath, filepath)
                 IN /\ CtxStore(r)
                    /\ ctx_printed' = IF r.ret THEN r.printed
                                      ELSE Append(r.printed, RemainingWarning)
                    /\ ctx_pc' = IF r.ret THEN "others" ELSE "report"
    /\ UNCHANGED <<repo_files, ctx_i>>
    /\ UNCHANGED notCtx

CtxOthersEnd ==
    /\ ctx_pc = "others"
    /\ ctx_todo = {}
    /\ ctx_pc' = "report"
    /\ UNCHANGED <<repo_files, ctx_i, ctx_todo, ctx_cur, code_context, total_chars,
                   files_read, processed_files, ctx_printed>>
    /\ UNCHANGED notCtx

\* print(f"Read ..."); if not code_context: print(warning); return code_context
CtxReturn ==
    /\ ctx_pc = "report"
    /\ ctx_pc' = "done"
    /\ ctx_printed' =
         LET p == Append(ctx_printed, <<"Read", files_read, total_chars>>)
         IN IF code_context = <<>> THEN Append(p, EmptyWarning) ELSE p
    /\ UNCHANGED <<repo_files, ctx_i, ctx_todo, ctx_cur, code_context, total_chars,
                   files_read, processed_files>>
    /\ UNCHANGED notCtx

-----------------------------------------------------------------------------
(* _get_file_tree                                                          *)

\* files per directory and the file name lengths tried
MaxDirFiles == 4
NameLens == {8, 255}

\* tempfile.mkdtemp(prefix="coral_git_") names the root like this
RootName == "coral_git_abcdefgh"

DirName(d) == CASE d = "root" -> RootName
                [] d = "pkg" -> "pkg"
                [] d = "pkg/sub" -> "sub"
                [] d = "link" -> "link"
                [] OTHER -> ".git"

\* level = root.replace(str(repo_path), '').count(os.sep)
Level(d) == CASE d = "root" -> 0
              [] d = "pkg/sub" -> 2
              [] OTHER -> 1

DirShapes == [present : {TRUE}, n : 0..MaxDirFiles, namelen : NameLens]
NoDir == [present |-> FALSE, n |-> 0, namelen |-> 8]

\* root, root/pkg, root/pkg/sub are directories with n files each;
\* git: root/.git exists; link: root/link is a symbolic link to a directory
TreeInputs ==
    { t \in [root : DirShapes, pkg : DirShapes \cup {NoDir}, sub : DirShapes \cup {NoDir},
             git : BOOLEAN, link : BOOLEAN] :
        /\ (t.sub.present => t.pkg.present)
        /\ (t.root.n = 0 => t.root.namelen = 8)
        /\ (t.pkg.n = 0 => t.pkg.namelen = 8)
        /\ (t.sub.n = 0 => t.sub.namelen = 8) }

Shape(t, d) == CASE d = "root" -> t.root
                 [] d = "pkg" -> t.pkg
                 [] OTHER -> t.sub

DirEntry(d) == [dir |-> d, file |-> 0]
FileEntry(d, k) == [dir |-> d, file |-> k]
MarkerEntry == [dir |-> "...", file |-> 0]

\* what one (root, dirs, files) yield of os.walk makes the loop body see:
\* the directory, then its files
WalkOne(t, d) ==
    << [entry |-> DirEntry(d), level |-> Level(d), namelen |-> Len(DirName(d))] >>
    \o [k \in 1..Shape(t, d).n |->
          [entry |-> FileEntry(d, k), level |-> Level(d), namelen |-> Shape(t, d).namelen]]

\* os.walk, top-down, followlinks=False: '.git' is removed from dirs by the
\* loop body and so not visited; a symbolic link to a directory is in dirs
\* but os.walk does not descend into it, so it is never a root
os_walk(t) ==
    WalkOne(t, "root")
    \o (IF t.pkg.present THEN WalkOne(t, "pkg") ELSE <<>>)
    \o (IF t.sub.present THEN WalkOne(t, "pkg/sub") ELSE <<>>)

\* f"{indent}{os.path.basename(root)}/\n"
DirLine(it) == [entry |-> it.entry, len |-> 4 * it.level + it.namelen + Len("/\n")]
\* f"{sub_indent}{f}\n"
FileLine(it) == [entry |-> it.entry, len |-> 4 * (it.level + 1) + it.namelen + Len("\n")]
\* f"{sub_indent}...\n"
MarkerLine(it) == [entry |-> MarkerEntry, len |-> 4 * (it.level + 1) + Len("...\n")]

TruncationWarning == <<"Warning: File tree truncated at", MAX_TREE_CHARS, "characters.">>

\* if len(tree_str) > MAX_TREE_CHARS
OverTreeLimit(s) == SumLen(s) > MAX_TREE_CHARS

\* a return at the limit that appends no marker
Truncated_unmarked(s, it) == s

\* tree_str += f"{sub_indent}...\n"; return tree_str
Truncated(s, it) == Append(s, MarkerLine(it))

\* the loop body's first part: tree_str += the directory's line
TreeDirStep ==
    /\ tree_pc = "walk"
    /\ tree_walk # <<>>
    /\ Head(tree_walk).entry.file = 0
    /\ tree_str' = Append(tree_str, DirLine(Head(tree_walk)))
    /\ tree_walk' = Tail(tree_walk)
    /\ UNCHANGED <<tree_in, tree_pc, file_count, tree_printed>>
    /\ UNCHANGED notTree

\* for f in files: one iteration
TreeFileStep ==
    /\ tree_pc = "walk"
    /\ tree_walk # <<>>
    /\ Head(tree_walk).entry.file # 0
    /\ LET it == Head(tree_walk)
           s == Append(tree_str, FileLine(it))
       IN /\ file_count' = file_count + 1
          /\ IF OverTreeLimit(s)
             THEN /\ tree_printed' = Append(tree_printed, TruncationWarning)
                  /\ tree_str' = Truncated(s, it)
                  /\ tree_pc' = "done"
             ELSE /\ tree_str' = s
                  /\ UNCHANGED <<tree_printed, tree_pc>>
    /\ tree_walk' = Tail(tree_walk)
    /\ UNCHANGED tree_in
    /\ UNCHANGED notTree

\* os.walk is exhausted: print(f"Generated tree for {file_count} files."); return
TreeReturn ==
    /\ tree_pc = "walk"
    /\ tree_walk = <<>>
    /\ tree_printed' = Append(tree_printed, <<"Generated tree for", file_count, "files.">>)
    /\ tree_pc' = "done"
    /\ UNCHANGED <<tree_in, tree_walk, tree_str, file_count>>
    /\ UNCHANGED notTree

-----------------------------------------------------------------------------
(* _parse_generated_code                                                   *)
(*                                                                         *)
(* A response is a sequence of tokens, each standing for a piece of text   *)
(* that the regular expression treats as a unit: the fence of three backquotes, the tag  *)
(* in two spellings (re.IGNORECASE), a whitespace character, other text,   *)
(* and the two structural markers.                                         *)

MaxRespLen == 6

\* three backquotes
FENCE == "<fence>"
Tokens == {FENCE, "python", "Python", "\n", "x", "import asyncio", "MCPToolkit"}

\* two fence tokens in a row would be six backquotes, which the expression can
\* split anywhere; such responses are left out so that tokens stay units
Responses ==
    { r \in UNION { [1..n -> Tokens] : n \in 0..MaxRespLen } :
        \A k \in 1..(Len(r) - 1) : ~(r[k] = FENCE /\ r[k + 1] = FENCE) }

IsSpace(t) == t = "\n"
Lower(t) == IF t = "Python" THEN "python" ELSE t

\* str.strip()
RECURSIVE LStrip(_)
LStrip(s) == IF s # <<>> /\ IsSpace(Head(s)) THEN LStrip(Tail(s)) ELSE s
RECURSIVE RStrip(_)
RStrip(s) == IF s # <<>> /\ IsSpace(s[Len(s)]) THEN RStrip(SubSeq(s, 1, Len(s) - 1)) ELSE s
strip(s) == RStrip(LStrip(s))

\* the number of whitespace tokens from position p on
RECURSIVE SpaceRun(_, _)
SpaceRun(r, p) == IF p <= Len(r) /\ IsSpace(r[p]) THEN 1 + SpaceRun(r, p + 1) ELSE 0

\* "```python" (ignoring case) starts at token i
TagAt(r, i) == i + 1 <= Len(r) /\ r[i] = FENCE /\ Lower(r[i + 1]) = "python"

\* \s*``` matches right after token e
ClosesAfter(r, e) ==
    LET q == e + 1 + SpaceRun(r, e + 1) IN q <= Len(r) /\ r[q] = FENCE

\* ([\s\S]+?)\s*``` from token s on: the ends e of a group of at least one
\* token after which the closing part matches
GroupEnds(r, s) == {e \in s..Len(r) : ClosesAfter(r, e)}

\* \s* after the tag is greedy: the engine tries the longest run of whitespace
\* first and gives tokens back only if the rest cannot match
SkipChoices(r, i) == {k \in 0..SpaceRun(r, i + 2) : GroupEnds(r, i + 2 + k) # {}}

Max(S) == CHOOSE m \in S : \A n \in S : n <= m
Min(S) == CHOOSE m \in S : \A n \in S : m <= n

\* re.search(r"```python\s*([\s\S]+?)\s*```", response, re.IGNORECASE):
\* <<>> for no match, else <<group(1)>>, for the leftmost start that matches
re_search(r) ==
    LET starts == {i \in 1..Len(r) : TagAt(r, i) /\ SkipChoices(r, i) # {}}
    IN IF starts = {} THEN <<>>
       ELSE LET i == Min(starts)
                s == i + 2 + Max(SkipChoices(r, i))
                e == Min(GroupEnds(r, s))
            IN << SubSeq(r, s, e) >>

\* one marker taken to be enough
HasMarkers_either(r) == "import asyncio" \in Range(r) \/ "MCPToolkit" \in Range(r)

\* "import asyncio" in response_content and "MCPToolkit" in response_content
HasMarkers(r) == "import asyncio" \in Range(r) /\ "MCPToolkit" \in Range(r)

\* what is printed: the message and, between the "--- Agent Response ---"
\* lines, the response that is shown with it (<<>> when none is shown)
RawWarning == [text |-> "Warning: Could not find python block, attempting to use raw response as code.",
               shown |-> <<>>]
ParseError(r) == [text |-> "Error: Could not parse Python code from the agent's response.",
                  shown |-> <<r>>]

\* the fallback taken without looking for the markers
parse_generated_code_raw_unchecked(r) ==
    LET match == re_search(r)
    IN IF match # <<>>
       THEN [result |-> << strip(match[1]) >>, printed |-> <<>>]
       ELSE [result |-> << strip(r) >>, printed |-> << RawWarning >>]

\* the value returned and the lines printed
parse_generated_code(r) ==
    LET match == re_search(r)
    IN IF match # <<>>
       THEN [result |-> << strip(match[1]) >>, printed |-> <<>>]
       ELSE IF HasMarkers(r)
            THEN [result |-> << strip(r) >>, printed |-> << RawWarning >>]
            ELSE [result |-> <<>>, printed |-> << ParseError(r) >>]

ParseStore(out) ==
    /\ parse_result' = out.result
    /\ parse_printed' = out.printed
    /\ parse_pc' = "done"
    /\ UNCHANGED response_content

\* if match: return match.group(1).strip()
ParseFence ==
    /\ parse_pc = "call"
    /\ re_search(response_content) # <<>>
    /\ ParseStore(parse_generated_code(response_content))
    /\ UNCHANGED notParse

\* the fallback: the raw response, when it holds both markers
ParseRaw ==
    /\ parse_pc = "call"
    /\ re_search(response_content) = <<>>
    /\ HasMarkers(response_content)
    /\ ParseStore(parse_generated_code(response_content))
    /\ UNCHANGED notParse

\* else: print the response, return None
ParseFail ==
    /\ parse_pc = "call"
    /\ re_search(response_content) = <<>>
    /\ ~HasMarkers(response_content)
    /\ ParseStore(parse_generated_code(response_content))
    /\ UNCHANGED notParse

-----------------------------------------------------------------------------
(* generate_dockerfile                                                     *)

\* the paths under repo_path that generate_dockerfile asks about, and
\* poetry.lock, which it names without asking
DockPaths == {"requirements.txt", "setup.py", "pyproject.toml", "setup.cfg",
              "MANIFEST.in", RootName, "src", "poetry.lock"}

DockInputs == SUBSET DockPaths

CamelInstall == "RUN pip install --no-cache-dir 'camel-ai[web-tools]>=0.2.0,<0.3.0'"
Placeholder == "# Add necessary pip installs here if needed"

ReqSteps == <<"COPY requirements.txt .",
              "RUN pip install --no-cache-dir -r requirements.txt">>

\* repo_path.name is the name of the temporary directory
SetupSteps(exists) ==
    <<"COPY setup.py .">>
    \o (IF "setup.cfg" \in exists THEN <<"COPY setup.cfg .">> ELSE <<>>)
    \o (IF "MANIFEST.in" \in exists THEN <<"COPY MANIFEST.in .">> ELSE <<>>)
    \o (IF RootName \in exists
        THEN << "COPY " \o RootName \o " ./" \o RootName >>
        ELSE IF "src" \in exists THEN <<"COPY src ./src">> ELSE <<>>)
    \o <<"RUN pip install --no-cache-dir .">>

PyprojectSteps ==
    <<"COPY pyproject.toml .",
      "COPY poetry.lock .",
      "RUN pip install --no-cache-dir poetry",
      "RUN poetry config virtualenvs.create false && poetry install --no-dev --no-interaction --no-ansi">>

\* the pyproject.toml steps put before the setup.py steps
install_commands_reordered(exists) ==
    LET found == (IF "requirements.txt" \in exists THEN ReqSteps ELSE <<>>)
                 \o (IF "pyproject.toml" \in exists THEN PyprojectSteps ELSE <<>>)
                 \o (IF "setup.py" \in exists THEN SetupSteps(exists) ELSE <<>>)
        cmds == IF found = <<>> THEN << Placeholder >> ELSE found
    IN Append(cmds, CamelInstall)

\* the emptiness test made after the camel-ai step was appended
install_commands_late_test(exists) ==
    LET found == (IF "requirements.txt" \in exists THEN ReqSteps ELSE <<>>)
                 \o (IF "setup.py" \in exists THEN SetupSteps(exists) ELSE <<>>)
                 \o (IF "pyproject.toml" \in exists THEN PyprojectSteps ELSE <<>>)
        cmds == Append(found, CamelInstall)
    IN IF cmds = <<>> THEN << Placeholder >> ELSE cmds

\* install_commands, as the function builds it
install_commands(exists) ==
    LET found == (IF "requirements.txt" \in exists THEN ReqSteps ELSE <<>>)
                 \o (IF "setup.py" \in exists THEN SetupSteps(exists) ELSE <<>>)
                 \o (IF "pyproject.toml" \in exists THEN PyprojectSteps ELSE <<>>)
        cmds == IF found = <<>> THEN << Placeholder >> ELSE found
    IN Append(cmds, CamelInstall)

InstallHeading == "# Install dependencies (commands determined above)"
EnvHeading == "# Set environment variables (API key passed during run)"

\* the f-string, line by line; "\n".join(install_commands) puts one command
\* on each line
DockerfileText(exists) ==
    <<"FROM python:3.10-slim", "",
      "WORKDIR /app", "",
      "# Copy the entire cloned repository content first",
      "# This allows subsequent COPY/RUN commands to work relative to /app",
      "COPY . /app/", "",
      "# Copy the generated Coral wrapper into the root of /app",
      "COPY coral_wrapper.py /app/", "",
      InstallHeading>>
    \o install_commands(exists)
    \o <<"",
         EnvHeading,
         "# ENV OPENAI_API_KEY=...",
         "# ENV CORAL_SERVER_URL=...",
         "# ENV CORAL_AGENT_ID=...", "",
         "# Run the Coral wrapper (ensure it's executable if needed: RUN chmod +x /app/coral_wrapper.py)",
         "# Use python -u for unbuffered output",
         "CMD [\"python\", \"-u\", \"/app/coral_wrapper.py\"]">>

DockMessages(exists) ==
    <<"Generating Dockerfile...">>
    \o (IF "requirements.txt" \in exists THEN <<"Found requirements.txt.">> ELSE <<>>)
    \o (IF "setup.py" \in exists THEN <<"Found setup.py. Adding 'pip install .'">> ELSE <<>>)
    \o (IF "pyproject.toml" \in exists
        THEN <<"Found pyproject.toml. Attempting Poetry install (experimental).">> ELSE <<>>)
    \o (IF exists \cap {"requirements.txt", "setup.py", "pyproject.toml"} = {}
        THEN <<"Warning: No standard dependency file found">> ELSE <<>>)
    \o <<"Dockerfile generated.">>

generate_dockerfile ==
    /\ dock_pc = "call"
    /\ dockerfile' = DockerfileText(dock_in)
    /\ dock_printed' = DockMessages(dock_in)
    /\ dock_pc' = "done"
    /\ UNCHANGED dock_in
    /\ UNCHANGED notDock

-----------------------------------------------------------------------------
(* The coralize-github command: GitHubCoralizer.coralize, build_and_run,   *)
(* cleanup and __del__, and the command function that drives them.         *)
(*                                                                         *)
(* Each external call (clone, agent request, file write, build, run, the   *)
(* local child process, a deletion attempt) is one step with one action    *)
(* for each of its outcomes.  cleanup() is called from many places; cl_ret *)
(* holds the place it returns to.                                          *)

CleanedMsg == "Cleaned up temporary directory"
RetryWarning == "Warning: Permission error cleaning up, retrying"
ExhaustedWarning == "Warning: Failed to clean up temporary directory after multiple retries"
FailedWarning == "Warning: Failed to clean up temporary directory"

\* a printed line: its fixed text and, where the line shows a value (the
\* stderr of a command), that value
Line(msg) == [text |-> msg, shown |-> <<>>]
Shows(msg, value) == [text |-> msg, shown |-> value]
Say(msg) == printed' = Append(printed, Line(msg))
Printed(msg) == \E k \in DOMAIN printed : printed[k].text = msg
\* an external operation: what was called, the name it was given (an image
\* tag or a container name, as characters), its return code and the stderr
\* it came back with
Op(op) == [op |-> op, arg |-> <<>>, rc |-> 0, err |-> <<>>]
OpArg(op, arg) == [op |-> op, arg |-> arg, rc |-> 0, err |-> <<>>]
OpFailed(op, arg, stderr) == [op |-> op, arg |-> arg, rc |-> 1, err |-> stderr]
Do(op) == ops' = Append(ops, Op(op))
DoArg(op, arg) == ops' = Append(ops, OpArg(op, arg))
Did(op) == \E k \in DOMAIN ops : ops[k].op = op
RECURSIVE Count(_, _)
Count(s, op) == IF s = <<>> THEN 0
                ELSE (IF Head(s).op = op THEN 1 ELSE 0) + Count(Tail(s), op)

\* ---- the agent identifier and the names made of it ----

AgentIds == {"None", "a b", "A-B"}

\* the characters of an agent identifier
Chars(a) ==
    CASE a = "a b" -> <<"a", " ", "b">>
      [] a = "A-B" -> <<"A", "-", "B">>
      [] a = "c" -> <<"c">>
      [] OTHER -> <<>>

\* str.lower(), one character
lower_char(c) == CASE c = "A" -> "a" [] c = "B" -> "b" [] OTHER -> c

\* agent_id.lower().replace(' ', '-')
Sanitized(a) ==
    [k \in DOMAIN Chars(a) |->
        IF lower_char(Chars(a)[k]) = " " THEN "-" ELSE lower_char(Chars(a)[k])]

\* image_name = f"github-coralizer-{...}"
image_name(a) == <<"github-coralizer-">> \o Sanitized(a)
\* container_name = f"coral-agent-{...}"
container_name(a) == <<"coral-agent-">> \o Sanitized(a)

\* go to place p, changing nothing but what the caller states
Goto(p) == pc' = p

\* self.cleanup(), then on to place p
CallCleanup(p) == pc' = "cleanup" /\ cl_ret' = p

inputs == <<run_mode, output_dir, agent_id>>

\* ---- GitHubCoralizer.cleanup ----

\* the deletion loop entered without the test of temp_dir and exists()
CleanupNothing_attempts ==
    /\ pc = "cleanup"
    /\ ~(temp_dir # "None" /\ dir_exists)
    /\ retries' = 3
    /\ Do("cleanup")
    /\ Goto("rmtree")
    /\ UNCHANGED <<inputs, temp_dir, dir_exists, exc, exit_status, printed, cl_ret>>
    /\ UNCHANGED notPipe

\* if self.temp_dir and Path(self.temp_dir).exists(): is false
CleanupNothing ==
    /\ pc = "cleanup"
    /\ ~(temp_dir # "None" /\ dir_exists)
    /\ Do("cleanup")
    /\ Goto(cl_ret)
    /\ UNCHANGED <<inputs, temp_dir, dir_exists, exc, exit_status, printed, cl_ret, retries>>
    /\ UNCHANGED notPipe

\* retries = 3; delay = 1
CleanupBegin ==
    /\ pc = "cleanup"
    /\ temp_dir # "None" /\ dir_exists
    /\ retries' = 3
    /\ Do("cleanup")
    /\ Goto("rmtree")
    /\ UNCHANGED <<inputs, temp_dir, dir_exists, exc, exit_status, printed, cl_ret>>
    /\ UNCHANGED notPipe

\* shutil.rmtree succeeds
CleanupRemoved ==
    /\ pc = "rmtree" /\ retries > 0
    /\ Do("rmtree")
    /\ dir_exists' = FALSE
    /\ Say(CleanedMsg)
    /\ temp_dir' = "None"
    /\ Goto(cl_ret)
    /\ UNCHANGED <<inputs, exc, exit_status, cl_ret, retries>>
    /\ UNCHANGED notPipe

\* the permission branch without retries -= 1
CleanupPermissionError_no_decrement ==
    /\ pc = "rmtree" /\ retries > 0
    /\ Say(RetryWarning)
    /\ ops' = ops \o <<OpFailed("rmtree", <<>>, <<>>), Op("sleep")>>
    /\ Goto("rmtree")
    /\ UNCHANGED <<inputs, temp_dir, dir_exists, exc, exit_status, cl_ret, retries>>
    /\ UNCHANGED notPipe

\* shutil.rmtree raises PermissionError (or "Access is denied")
CleanupPermissionError ==
    /\ pc = "rmtree" /\ retries > 0
    /\ retries' = retries - 1
    /\ IF retries' = 0
       THEN /\ Say(ExhaustedWarning)
            /\ ops' = Append(ops, OpFailed("rmtree", <<>>, <<>>))
            /\ Goto(cl_ret)
       ELSE /\ Say(RetryWarning)
            /\ ops' = ops \o <<OpFailed("rmtree", <<>>, <<>>), Op("sleep")>>
            /\ Goto("rmtree")
    /\ UNCHANGED <<inputs, temp_dir, dir_exists, exc, exit_status, cl_ret>>
    /\ UNCHANGED notPipe

\* the re-raised OSError with no outer handler: it leaves cleanup
CleanupOtherError_raises ==
    /\ pc = "rmtree" /\ retries > 0
    /\ ops' = Append(ops, OpFailed("rmtree", <<>>, <<>>))
    /\ exc' = "OSError"
    /\ Goto(IF cl_ret = "done" THEN "done" ELSE "cli_except_unexpected")
    /\ UNCHANGED <<inputs, temp_dir, dir_exists, exit_status, printed, cl_ret, retries>>
    /\ UNCHANGED notPipe

\* shutil.rmtree raises another OSError: re-raised at once, and caught by
\* the outer except Exception
CleanupOtherError ==
    /\ pc = "rmtree" /\ retries > 0
    /\ ops' = Append(ops, OpFailed("rmtree", <<>>, <<>>))
    /\ Say(FailedWarning)
    /\ Goto(cl_ret)
    /\ UNCHANGED <<inputs, temp_dir, dir_exists, exc, exit_status, cl_ret, retries>>
    /\ UNCHANGED notPipe

InterruptedOp == "rmtree interrupted"

\* KeyboardInterrupt while shutil.rmtree or time.sleep runs: it is not an
\* Exception, so neither handler of cleanup catches it and it leaves
\* cleanup with the directory still there. Raised inside __del__ it is
\* ignored; raised by the cleanup of a failed build (inside the try of
\* build_and_run) it is caught by except KeyboardInterrupt, where
\* container_name is unbound, and finally calls cleanup again; anywhere
\* else no handler up to the command catches it.
CleanupInterrupted ==
    /\ pc = "rmtree" /\ retries > 0
    /\ ops' = ops \o <<OpFailed("rmtree", <<>>, <<>>), Op(InterruptedOp)>>
    /\ CASE cl_ret = "done" ->
              /\ Goto("done")
              /\ UNCHANGED <<exc, printed, cl_ret>>
         [] cl_ret = "br_finally" ->
              /\ Say("Stopping Docker container...")
              /\ exc' = "UnboundLocalError"
              /\ CallCleanup("cli_except_unexpected")
         [] OTHER ->
              /\ exc' = "KeyboardInterrupt"
              /\ Goto("cli_unhandled")
              /\ UNCHANGED <<printed, cl_ret>>
    /\ UNCHANGED <<inputs, temp_dir, dir_exists, exit_status, retries>>
    /\ UNCHANGED notPipe

\* ---- GitHubCoralizer._clone_repo ----

\* self.temp_dir = tempfile.mkdtemp(prefix="coral_git_")
CloneMkdtemp ==
    /\ pc = "clone"
    /\ temp_dir' = "path" /\ dir_exists' = TRUE
    /\ Do("mkdtemp")
    /\ Goto("cloning")
    /\ UNCHANGED <<inputs, exc, exit_status, printed, cl_ret, retries>>
    /\ UNCHANGED notPipe

\* tempfile.mkdtemp raises (no space, no writable temporary directory): the
\* call is outside the try of _clone_repo and _clone_repo is called outside
\* the try of coralize, so the OSError reaches the command
CloneMkdtempFails ==
    /\ pc = "clone"
    /\ ops' = Append(ops, OpFailed("mkdtemp", <<>>, <<>>))
    /\ exc' = "OSError"
    /\ Goto("cli_except_unexpected")
    /\ UNCHANGED <<inputs, temp_dir, dir_exists, exit_status, printed, cl_ret, retries>>
    /\ UNCHANGED notPipe

CloneOk ==
    /\ pc = "cloning"
    /\ Do("git clone")
    /\ Say("Repository cloned successfully.")
    /\ Goto("scan")
    /\ UNCHANGED <<inputs, temp_dir, dir_exists, exc, exit_status, cl_ret, retries>>
    /\ UNCHANGED notPipe

\* the RuntimeError raised with the directory left as it is
CloneFails_no_cleanup ==
    /\ pc = "cloning"
    /\ ops' = Append(ops, OpFailed("git clone", <<>>, <<>>))
    /\ exc' = "RuntimeError"
    /\ Goto("cli_except_setup")
    /\ UNCHANGED <<inputs, temp_dir, dir_exists, exit_status, printed, cl_ret, retries>>
    /\ UNCHANGED notPipe

\* except git.GitCommandError / except Exception: self.cleanup(); raise RuntimeError
CloneFails ==
    /\ pc = "cloning"
    /\ ops' = Append(ops, OpFailed("git clone", <<>>, <<>>))
    /\ exc' = "RuntimeError"
    /\ CallCleanup("cli_except_setup")
    /\ UNCHANGED <<inputs, temp_dir, dir_exists, exit_status, printed, retries>>
    /\ UNCHANGED notPipe

\* KeyboardInterrupt is no Exception: no handler of _clone_repo, coralize or
\* the command catches it
CloneInterrupted ==
    /\ pc = "cloning"
    /\ Do("git clone")
    /\ exc' = "KeyboardInterrupt"
    /\ Goto("cli_unhandled")
    /\ UNCHANGED <<inputs, temp_dir, dir_exists, exit_status, printed, cl_ret, retries>>
    /\ UNCHANGED notPipe

\* ---- GitHubCoralizer.coralize / _generate_wrapper_with_camel_agent ----

\* file_tree = self._get_file_tree(...); code_context = self._get_code_context(...)
ScanOk ==
    /\ pc = "scan"
    /\ Goto("agent_create")
    /\ UNCHANGED <<inputs, temp_dir, dir_exists, exc, exit_status, printed, ops, cl_ret, retries>>
    /\ UNCHANGED notPipe

\* an exception out of the scan (os.walk, rglob): coralize's except Exception
\* prints, calls cleanup and re-raises
ScanRaises ==
    /\ pc = "scan"
    /\ exc' = "OSError"
    /\ Say("Error during coralization process")
    /\ CallCleanup("cli_except_unexpected")
    /\ UNCHANGED <<inputs, temp_dir, dir_exists, exit_status, ops, retries>>
    /\ UNCHANGED notPipe

\* the interrupt taken by coralize's except Exception as any error is
ScanInterrupted_caught ==
    /\ pc = "scan"
    /\ exc' = "KeyboardInterrupt"
    /\ Say("Error during coralization process")
    /\ CallCleanup("cli_except_unexpected")
    /\ UNCHANGED <<inputs, temp_dir, dir_exists, exit_status, ops, retries>>
    /\ UNCHANGED notPipe

\* KeyboardInterrupt (inside asyncio.run: the task's CancelledError) is no
\* Exception: neither coralize's except clause nor the command's catches it
ScanInterrupted ==
    /\ pc = "scan"
    /\ exc' = "KeyboardInterrupt"
    /\ Goto("cli_unhandled")
    /\ UNCHANGED <<inputs, temp_dir, dir_exists, exit_status, printed, ops, cl_ret, retries>>
    /\ UNCHANGED notPipe

AgentCreateError == "Error creating code generation agent"

\* ModelFactory.create / ChatAgent(...) / reset()
\* what the agent answers in the runs of the whole command: code in a
\* fence, or no code at all
SpecReplies ==
    { <<FENCE, "python", "\n", "x", "\n", FENCE>>,
      <<"x">> }

\* the agent is created; response_content is from here on the content of
\* the message it answers with if it is asked and answers
AgentCreateOk ==
    /\ pc = "agent_create"
    /\ Do("create agent")
    /\ response_content' \in SpecReplies
    /\ Goto("agent_request")
    /\ UNCHANGED <<inputs, temp_dir, dir_exists, exc, exit_status, printed, cl_ret, retries>>
    /\ UNCHANGED <<parse_pc, parse_result, parse_printed>>
    /\ UNCHANGED <<ctxVars, treeVars, dockVars, reqVars>>

\* the error of the agent's creation left to coralize's except Exception
AgentCreateFails_raises ==
    /\ pc = "agent_create"
    /\ Do("create agent")
    /\ exc' = "RuntimeError"
    /\ printed' = printed \o <<Line(AgentCreateError), Line("Error during coralization process")>>
    /\ pc' = "cleanup" /\ cl_ret' = "cli_except_unexpected"
    /\ UNCHANGED <<inputs, temp_dir, dir_exists, exit_status, retries>>
    /\ UNCHANGED notPipe

\* except Exception as e: print; return None
AgentCreateFails ==
    /\ pc = "agent_create"
    /\ Do("create agent")
    /\ Say(AgentCreateError)
    /\ Goto("gen_failed")
    /\ UNCHANGED <<inputs, temp_dir, dir_exists, exc, exit_status, cl_ret, retries>>
    /\ UNCHANGED notPipe

\* the wrapper is what _parse_generated_code makes of the agent's answer
GeneratedWrapper == parse_generated_code(response_content)

\* a value that is not None and not the empty string: "if not wrapper"
\* takes the other branch
Truthy(w) == w # <<>> /\ w[1] # <<>>

\* the wrapper tested against None only
AgentRequestWrapper_none_test ==
    /\ pc = "agent_request"
    /\ GeneratedWrapper.result # <<>>
    /\ Do("astep")
    /\ printed' = Append(printed, Line("Agent generation complete."))
                      \o GeneratedWrapper.printed
    /\ Goto("dockerfile")
    /\ UNCHANGED <<inputs, temp_dir, dir_exists, exc, exit_status, cl_ret, retries>>
    /\ UNCHANGED notPipe

\* response = await code_generator_agent.astep(prompt), then
\* _parse_generated_code on the first message; a wrapper text comes back
\* and coralize() finds it true
AgentRequestWrapper ==
    /\ pc = "agent_request"
    /\ Truthy(GeneratedWrapper.result)
    /\ Do("astep")
    /\ printed' = Append(printed, Line("Agent generation complete."))
                      \o GeneratedWrapper.printed
    /\ Goto("dockerfile")
    /\ UNCHANGED <<inputs, temp_dir, dir_exists, exc, exit_status, cl_ret, retries>>
    /\ UNCHANGED notPipe

\* the reply cannot be parsed (None) or its code is empty
AgentRequestUnparsable ==
    /\ pc = "agent_request"
    /\ ~Truthy(GeneratedWrapper.result)
    /\ Do("astep")
    /\ printed' = Append(printed, Line("Agent generation complete."))
                      \o GeneratedWrapper.printed
    /\ Goto("gen_failed")
    /\ UNCHANGED <<inputs, temp_dir, dir_exists, exc, exit_status, cl_ret, retries>>
    /\ UNCHANGED notPipe

AgentStepError == "Error during code generation agent step"
AgentNoResponse == "Error: Code generation agent did not return a valid response."

\* a failed request asked again
AgentRequestFails_retries ==
    /\ pc = "agent_request"
    /\ Do("astep")
    /\ \E msg \in {AgentStepError, AgentNoResponse} : Say(msg)
    /\ Goto("agent_request")
    /\ UNCHANGED <<inputs, temp_dir, dir_exists, exc, exit_status, cl_ret, retries>>
    /\ UNCHANGED notPipe

\* astep raises, or the response has no message
AgentRequestFails ==
    /\ pc = "agent_request"
    /\ Do("astep")
    /\ \E msg \in {AgentStepError, AgentNoResponse} : Say(msg)
    /\ Goto("gen_failed")
    /\ UNCHANGED <<inputs, temp_dir, dir_exists, exc, exit_status, cl_ret, retries>>
    /\ UNCHANGED notPipe

AgentRequestInterrupted ==
    /\ pc = "agent_request"
    /\ Do("astep")
    /\ exc' = "KeyboardInterrupt"
    /\ Goto("cli_unhandled")
    /\ UNCHANGED <<inputs, temp_dir, dir_exists, exit_status, printed, cl_ret, retries>>
    /\ UNCHANGED notPipe

GenerationError == "Error: Failed to generate wrapper code using CAMEL agent."

\* if not wrapper: print; self.cleanup(); return None, None, None
GenerationFailed ==
    /\ pc = "gen_failed"
    /\ Say(GenerationError)
    /\ CallCleanup("cli_check_failed")
    /\ UNCHANGED <<inputs, temp_dir, dir_exists, exc, exit_status, ops, retries>>
    /\ UNCHANGED notPipe

\* dockerfile = self.generate_dockerfile(repo_path), dock_in being the
\* paths that exist in the clone; return the three values
CoralizeReturns ==
    /\ pc = "dockerfile"
    /\ dockerfile' = DockerfileText(dock_in)
    /\ dock_printed' = DockMessages(dock_in)
    /\ Goto("cli_output")
    /\ UNCHANGED <<inputs, temp_dir, dir_exists, exc, exit_status, printed, ops, cl_ret, retries>>
    /\ UNCHANGED <<dock_in, dock_pc>>
    /\ UNCHANGED <<ctxVars, treeVars, parseVars, reqVars>>

\* ---- coralize_github, after asyncio.run(coralizer.coralize()) ----

\* the command going on with the three None values, the check left out
CliGenerationFailed_unchecked ==
    /\ pc = "cli_check_failed"
    /\ Goto("cli_output")
    /\ UNCHANGED <<inputs, temp_dir, dir_exists, exc, exit_status, printed, ops, cl_ret, retries>>
    /\ UNCHANGED notPipe

\* a None came back: print; if coralizer and coralizer.temp_dir: cleanup();
\* raise typer.Exit(1).  typer.Exit is click's Exit, a RuntimeError, and the
\* raise is inside the try, so the first except clause catches it.
CliGenerationFailed ==
    /\ pc = "cli_check_failed"
    /\ Say("Failed to generate necessary files. See previous errors.")
    /\ exc' = "Exit"
    /\ IF temp_dir # "None"
       THEN CallCleanup("cli_except_setup")
       ELSE Goto("cli_except_setup") /\ UNCHANGED cl_ret
    /\ UNCHANGED <<inputs, temp_dir, dir_exists, exit_status, ops, retries>>
    /\ UNCHANGED notPipe

\* if output_dir: ... else: if run_mode == "docker": ... elif run_mode == "local": ...
CliDispatch ==
    /\ pc = "cli_output"
    /\ Goto(IF output_dir THEN "save"
            ELSE IF run_mode = "docker" THEN "br_write"
            ELSE IF run_mode = "local" THEN "local_write"
            ELSE "cli_return")
    /\ UNCHANGED <<inputs, temp_dir, dir_exists, exc, exit_status, printed, ops, cl_ret, retries>>
    /\ UNCHANGED notPipe

\* shutil.move(repo_path, output_dir) and the two files written at the new
\* place; the path of the temporary directory is gone
SaveOk ==
    /\ pc = "save"
    /\ agent_id # "None"
    /\ dir_exists' = FALSE
    /\ Do("move")
    /\ Say("Files and repository saved successfully!")
    /\ Goto("cli_return")
    /\ UNCHANGED <<inputs, temp_dir, exc, exit_status, cl_ret, retries>>
    /\ UNCHANGED notPipe

\* the move raises: except Exception prints; if coralizer.temp_dir: cleanup();
\* raise typer.Exit(1)
SaveMoveFails ==
    /\ pc = "save"
    /\ Do("move")
    /\ Say("Error saving files/repo")
    /\ exc' = "Exit"
    /\ CallCleanup("cli_except_setup")
    /\ UNCHANGED <<inputs, temp_dir, dir_exists, exit_status, retries>>
    /\ UNCHANGED notPipe

\* the move is done, then agent_id.lower() raises for agent_id None: the
\* same handler, with the directory already moved away
SaveNoAgentId ==
    /\ pc = "save"
    /\ agent_id = "None"
    /\ dir_exists' = FALSE
    /\ Do("move")
    /\ printed' = printed \o <<Line("Files and repository saved successfully!"),
                                Line("Error saving files/repo")>>
    /\ exc' = "Exit"
    /\ CallCleanup("cli_except_setup")
    /\ UNCHANGED <<inputs, temp_dir, exit_status, retries>>
    /\ UNCHANGED notPipe

\* ---- GitHubCoralizer.build_and_run ----

WriteError == "Error writing generated files"
NoDockerError == "Error: 'docker' command not found."
RunError == "Error running Docker command"
PermissionError == "Docker Permission Error Detected!"
BuildError == "Error building Docker image"

\* the stderr of a failed build, as the pieces of text that matter to the
\* test made on it
MaxStderrLen == 2
StderrPieces == {"permission denied", "Permission Denied", "docker.sock",
                 "DOCKER.SOCK", "no space left on device"}
StderrTexts == UNION {[1..n -> StderrPieces] : n \in 0..MaxStderrLen}

\* build_process.stderr.lower()
lower_piece(t) ==
    CASE t = "Permission Denied" -> "permission denied"
      [] t = "DOCKER.SOCK" -> "docker.sock"
      [] OTHER -> t
lower(stderr) == [k \in DOMAIN stderr |-> lower_piece(stderr[k])]

\* the test made on stderr as it came, without lower()
is_permission_error_case_sensitive(stderr) ==
    /\ "permission denied" \in Range(stderr)
    /\ "docker.sock" \in Range(stderr)

\* "permission denied" in ... and "docker.sock" in ...
is_permission_error(stderr) ==
    /\ "permission denied" \in Range(lower(stderr))
    /\ "docker.sock" \in Range(lower(stderr))

\* what the branch on returncode != 0 prints
build_failure_lines(stderr) ==
    IF is_permission_error(stderr)
    THEN <<Line(PermissionError),
           Line("The current user does not have permission to access the Docker daemon socket."),
           Line("On Linux, try adding your user to the 'docker' group:"),
           Line("  1. Run: sudo usermod -aG docker $USER"),
           Line("  2. Log out and log back in, or run: newgrp docker in your terminal."),
           Line("Then, try running the coral command again.")>>
    ELSE <<Line(BuildError), Shows("stderr", stderr)>>

\* the two writes of build_and_run, of which the first or the second does
\* not come to its end
BrokenWrites ==
    { << OpFailed("write coral_wrapper.py", <<>>, <<>>) >>,
      << Op("write coral_wrapper.py"), OpFailed("write Dockerfile", <<>>, <<>>) >> }

\* with open(wrapper_path, "w") ...; with open(dockerfile_path, "w") ...
BuildWriteOk ==
    /\ pc = "br_write"
    /\ ops' = ops \o << Op("write coral_wrapper.py"), Op("write Dockerfile") >>
    /\ Goto("br_image_name")
    /\ UNCHANGED <<inputs, temp_dir, dir_exists, exc, exit_status, printed, cl_ret, retries>>
    /\ UNCHANGED notPipe

\* except IOError: print; self.cleanup(); return
BuildWriteFails ==
    /\ pc = "br_write"
    /\ \E w \in BrokenWrites : ops' = ops \o w
    /\ Say(WriteError)
    /\ CallCleanup("cli_return")
    /\ UNCHANGED <<inputs, temp_dir, dir_exists, exc, exit_status, retries>>
    /\ UNCHANGED notPipe

\* the try around the writes catches IOError only
BuildWriteInterrupted ==
    /\ pc = "br_write"
    /\ \E w \in BrokenWrites : ops' = ops \o w
    /\ exc' = "KeyboardInterrupt"
    /\ Goto("cli_unhandled")
    /\ UNCHANGED <<inputs, temp_dir, dir_exists, exit_status, printed, cl_ret, retries>>
    /\ UNCHANGED notPipe

\* image_name = f"github-coralizer-{self.agent_id.lower()...}", outside any try:
\* for agent_id None the AttributeError leaves build_and_run
BuildImageName ==
    /\ pc = "br_image_name"
    /\ IF agent_id = "None"
       THEN exc' = "AttributeError" /\ Goto("cli_except_unexpected")
       ELSE Goto("br_build") /\ UNCHANGED exc
    /\ UNCHANGED <<inputs, temp_dir, dir_exists, exit_status, printed, ops, cl_ret, retries>>
    /\ UNCHANGED notPipe

BuildOk ==
    /\ pc = "br_build"
    /\ DoArg("docker build", image_name(agent_id))
    /\ Say("Docker image built successfully.")
    /\ Goto("br_run")
    /\ UNCHANGED <<inputs, temp_dir, dir_exists, exc, exit_status, cl_ret, retries>>
    /\ UNCHANGED notPipe

\* the failed build reported, and the run started all the same
BuildFails_goes_on ==
    /\ pc = "br_build"
    /\ \E stderr \in StderrTexts :
         /\ ops' = Append(ops, OpFailed("docker build", image_name(agent_id), stderr))
         /\ printed' = printed \o build_failure_lines(stderr)
    /\ Goto("br_run")
    /\ UNCHANGED <<inputs, temp_dir, dir_exists, exc, exit_status, cl_ret, retries>>
    /\ UNCHANGED notPipe

\* returncode != 0: the remediation or the raw stderr; self.cleanup(); return,
\* and the finally clause calls cleanup again
BuildFails ==
    /\ pc = "br_build"
    /\ \E stderr \in StderrTexts :
         /\ ops' = Append(ops, OpFailed("docker build", image_name(agent_id), stderr))
         /\ printed' = printed \o build_failure_lines(stderr)
    /\ CallCleanup("br_finally")
    /\ UNCHANGED <<inputs, temp_dir, dir_exists, exc, exit_status, retries>>
    /\ UNCHANGED notPipe

\* except FileNotFoundError: print; then finally
BuildNoDocker ==
    /\ pc = "br_build"
    /\ DoArg("docker build", image_name(agent_id))
    /\ Say(NoDockerError)
    /\ Goto("br_finally")
    /\ UNCHANGED <<inputs, temp_dir, dir_exists, exc, exit_status, cl_ret, retries>>
    /\ UNCHANGED notPipe

\* except KeyboardInterrupt during the build: container_name is assigned only
\* after a successful build, so building stop_cmd raises UnboundLocalError;
\* finally runs cleanup and the error leaves build_and_run
BuildInterrupted ==
    /\ pc = "br_build"
    /\ DoArg("docker build", image_name(agent_id))
    /\ Say("Stopping Docker container...")
    /\ exc' = "UnboundLocalError"
    /\ CallCleanup("cli_except_unexpected")
    /\ UNCHANGED <<inputs, temp_dir, dir_exists, exit_status, retries>>
    /\ UNCHANGED notPipe

RunOk ==
    /\ pc = "br_run"
    /\ DoArg("docker run", container_name(agent_id))
    /\ Goto("br_finally")
    /\ UNCHANGED <<inputs, temp_dir, dir_exists, exc, exit_status, printed, cl_ret, retries>>
    /\ UNCHANGED notPipe

\* except subprocess.CalledProcessError: print
RunFails ==
    /\ pc = "br_run"
    /\ ops' = Append(ops, OpFailed("docker run", container_name(agent_id), <<>>))
    /\ Say(RunError)
    /\ Goto("br_finally")
    /\ UNCHANGED <<inputs, temp_dir, dir_exists, exc, exit_status, cl_ret, retries>>
    /\ UNCHANGED notPipe

\* the stop command run with check=True: its failure leaves the handler as
\* CalledProcessError, through finally
RunInterrupted_stop_checked ==
    /\ pc = "br_run"
    /\ \E stop \in {OpArg("docker stop", container_name(agent_id)),
                     OpFailed("docker stop", container_name(agent_id), <<>>)} :
         /\ ops' = ops \o <<OpArg("docker run", container_name(agent_id)), stop>>
         /\ IF stop.rc = 0
            THEN /\ printed' = printed \o <<Line("Stopping Docker container..."),
                                             Line("Container stop command issued.")>>
                 /\ Goto("br_finally")
                 /\ UNCHANGED <<exc, cl_ret>>
            ELSE /\ printed' = Append(printed, Line("Stopping Docker container..."))
                 /\ exc' = "CalledProcessError"
                 /\ CallCleanup("cli_except_unexpected")
    /\ UNCHANGED <<inputs, temp_dir, dir_exists, exit_status, retries>>
    /\ UNCHANGED notPipe

\* except KeyboardInterrupt: docker stop <container_name>; the return code
\* of the stop command is not looked at
RunInterrupted ==
    /\ pc = "br_run"
    /\ \E stop \in {OpArg("docker stop", container_name(agent_id)),
                     OpFailed("docker stop", container_name(agent_id), <<>>)} :
         ops' = ops \o <<OpArg("docker run", container_name(agent_id)), stop>>
    /\ printed' = printed \o <<Line("Stopping Docker container..."),
                                Line("Container stop command issued.")>>
    /\ Goto("br_finally")
    /\ UNCHANGED <<inputs, temp_dir, dir_exists, exc, exit_status, cl_ret, retries>>
    /\ UNCHANGED notPipe

\* finally: self.cleanup(); build_and_run returns
BuildAndRunFinally ==
    /\ pc = "br_finally"
    /\ CallCleanup("cli_return")
    /\ UNCHANGED <<inputs, temp_dir, dir_exists, exc, exit_status, printed, ops, retries>>
    /\ UNCHANGED notPipe

\* ---- MCPCoralizer.build_and_run ----

mcp_image_name(a) == <<"mcp-coralizer-">> \o Sanitized(a)

\* os.getenv("OPENAI_API_KEY") is empty: print and return
McpNoApiKey ==
    /\ pc = "mcp_key"
    /\ Say("Error: OPENAI_API_KEY environment variable is not set.")
    /\ Goto("done")
    /\ UNCHANGED <<inputs, temp_dir, dir_exists, exc, exit_status, ops, cl_ret, retries>>
    /\ UNCHANGED notPipe

\* with tempfile.TemporaryDirectory() as tmpdir:
McpTemporaryDirectory ==
    /\ pc = "mcp_key"
    /\ temp_dir' = "path" /\ dir_exists' = TRUE
    /\ Do("mkdtemp")
    /\ Goto("mcp_write")
    /\ UNCHANGED <<inputs, exc, exit_status, printed, cl_ret, retries>>
    /\ UNCHANGED notPipe

McpWriteOk ==
    /\ pc = "mcp_write"
    /\ Do("write files")
    /\ Goto("mcp_build")
    /\ UNCHANGED <<inputs, temp_dir, dir_exists, exc, exit_status, printed, cl_ret, retries>>
    /\ UNCHANGED notPipe

\* the writes are in no try: the error leaves the with block
McpWriteFails ==
    /\ pc = "mcp_write"
    /\ Do("write files")
    /\ exc' = "OSError"
    /\ Goto("mcp_with_exit")
    /\ UNCHANGED <<inputs, temp_dir, dir_exists, exit_status, printed, cl_ret, retries>>
    /\ UNCHANGED notPipe

McpBuildOk ==
    /\ pc = "mcp_build"
    /\ DoArg("docker build", mcp_image_name(agent_id))
    /\ Say("Docker image built successfully.")
    /\ Goto("mcp_run")
    /\ UNCHANGED <<inputs, temp_dir, dir_exists, exc, exit_status, cl_ret, retries>>
    /\ UNCHANGED notPipe

\* returncode != 0: the remediation or the raw stderr; return
McpBuildFails ==
    /\ pc = "mcp_build"
    /\ \E stderr \in StderrTexts :
         /\ ops' = Append(ops, OpFailed("docker build", mcp_image_name(agent_id), stderr))
         /\ printed' = printed \o build_failure_lines(stderr)
    /\ Goto("mcp_with_exit")
    /\ UNCHANGED <<inputs, temp_dir, dir_exists, exc, exit_status, cl_ret, retries>>
    /\ UNCHANGED notPipe

McpNoDocker ==
    /\ pc = "mcp_build"
    /\ DoArg("docker build", mcp_image_name(agent_id))
    /\ Say(NoDockerError)
    /\ Goto("mcp_with_exit")
    /\ UNCHANGED <<inputs, temp_dir, dir_exists, exc, exit_status, cl_ret, retries>>
    /\ UNCHANGED notPipe

\* except KeyboardInterrupt during the build: the stop command is issued for
\* the container name, though no container was started
McpBuildInterrupted ==
    /\ pc = "mcp_build"
    /\ \E stop \in {OpArg("docker stop", container_name(agent_id)),
                     OpFailed("docker stop", container_name(agent_id), <<>>)} :
         ops' = ops \o <<OpArg("docker build", mcp_image_name(agent_id)), stop>>
    /\ printed' = printed \o <<Line("Stopping Docker container..."), Line("Container stopped.")>>
    /\ Goto("mcp_with_exit")
    /\ UNCHANGED <<inputs, temp_dir, dir_exists, exc, exit_status, cl_ret, retries>>
    /\ UNCHANGED notPipe

McpRunOk ==
    /\ pc = "mcp_run"
    /\ DoArg("docker run", container_name(agent_id))
    /\ Goto("mcp_with_exit")
    /\ UNCHANGED <<inputs, temp_dir, dir_exists, exc, exit_status, printed, cl_ret, retries>>
    /\ UNCHANGED notPipe

\* except subprocess.CalledProcessError: print
McpRunFails ==
    /\ pc = "mcp_run"
    /\ ops' = Append(ops, OpFailed("docker run", container_name(agent_id), <<>>))
    /\ Say("Error running Docker container")
    /\ Goto("mcp_with_exit")
    /\ UNCHANGED <<inputs, temp_dir, dir_exists, exc, exit_status, cl_ret, retries>>
    /\ UNCHANGED notPipe

\* except KeyboardInterrupt: docker stop coral-agent-<id>
McpRunInterrupted ==
    /\ pc = "mcp_run"
    /\ \E stop \in {OpArg("docker stop", container_name(agent_id)),
                     OpFailed("docker stop", container_name(agent_id), <<>>)} :
         ops' = ops \o <<OpArg("docker run", container_name(agent_id)), stop>>
    /\ printed' = printed \o <<Line("Stopping Docker container..."), Line("Container stopped.")>>
    /\ Goto("mcp_with_exit")
    /\ UNCHANGED <<inputs, temp_dir, dir_exists, exc, exit_status, cl_ret, retries>>
    /\ UNCHANGED notPipe

\* the with block is left: TemporaryDirectory removes the directory
McpWithExit ==
    /\ pc = "mcp_with_exit"
    /\ dir_exists' = FALSE
    /\ Do("rmtree")
    /\ Goto("done")
    /\ UNCHANGED <<inputs, temp_dir, exc, exit_status, printed, cl_ret, retries>>
    /\ UNCHANGED notPipe

\* ---- coralize_github: the local run ----

LocalWriteOk ==
    /\ pc = "local_write"
    /\ Do("write files")
    /\ Goto("local_run")
    /\ UNCHANGED <<inputs, temp_dir, dir_exists, exc, exit_status, printed, cl_ret, retries>>
    /\ UNCHANGED notPipe

\* except IOError: print; coralizer.cleanup(); raise typer.Exit(1)
LocalWriteFails ==
    /\ pc = "local_write"
    /\ Do("write files")
    /\ Say("Error writing generated files to temp dir for local run")
    /\ exc' = "Exit"
    /\ CallCleanup("cli_except_setup")
    /\ UNCHANGED <<inputs, temp_dir, dir_exists, exit_status, retries>>
    /\ UNCHANGED notPipe

\* the child of a local run whose wait() was ended by the operator's interrupt
InterruptedRun(op) == OpFailed(op, <<>>, <<"KeyboardInterrupt">>)

\* Popen and wait: the child ends with whatever status, or Popen fails
\* (except Exception: pass); finally: coralizer.cleanup()
LocalRunEnds ==
    /\ pc = "local_run"
    /\ \E child \in {Op("python coral_wrapper.py"),
                      OpFailed("python coral_wrapper.py", <<>>, <<>>)} :
         ops' = Append(ops, child)
    /\ CallCleanup("cli_return")
    /\ UNCHANGED <<inputs, temp_dir, dir_exists, exc, exit_status, printed, retries>>
    /\ UNCHANGED notPipe

\* except KeyboardInterrupt: pass; finally: coralizer.cleanup()
LocalRunInterrupted ==
    /\ pc = "local_run"
    /\ ops' = Append(ops, InterruptedRun("python coral_wrapper.py"))
    /\ CallCleanup("cli_return")
    /\ UNCHANGED <<inputs, temp_dir, dir_exists, exc, exit_status, printed, retries>>
    /\ UNCHANGED notPipe

\* ---- coralize_mcp: the local run ----

\* with tempfile.NamedTemporaryFile(..., delete=False): write the wrapper
McpLocalWrite ==
    /\ pc = "mcp_local_write"
    /\ Do("write script")
    /\ printed' = printed \o <<Line("Running wrapper script"),
                               Line("Press Ctrl+C to stop the agent.")>>
    /\ Goto("mcp_local_run")
    /\ UNCHANGED <<inputs, temp_dir, dir_exists, exc, exit_status, cl_ret, retries>>
    /\ UNCHANGED notPipe

\* Popen and wait: the child ends, or Popen fails (except Exception: print);
\* finally: os.remove(script_path); the command returns
McpLocalRunEnds ==
    /\ pc = "mcp_local_run"
    /\ \/ /\ ops' = ops \o <<Op("python script"), Op("remove script")>>
          /\ UNCHANGED printed
       \/ /\ ops' = ops \o <<OpFailed("python script", <<>>, <<>>), Op("remove script")>>
          /\ Say("Error running script locally")
    /\ exit_status' = "0"
    /\ Goto("done")
    /\ UNCHANGED <<inputs, temp_dir, dir_exists, exc, cl_ret, retries>>
    /\ UNCHANGED notPipe

\* except KeyboardInterrupt: print; if process: terminate(), wait(timeout=5),
\* kill() when the wait times out; print; finally: os.remove(script_path).
\* process is still None when the interrupt arrives inside Popen.
McpLocalRunInterrupted ==
    /\ pc = "mcp_local_run"
    /\ \E handled \in {<<InterruptedRun("python script"), Op("terminate")>>,
                        <<InterruptedRun("python script"), Op("terminate"), Op("kill")>>,
                        <<>>} :
         ops' = ops \o handled \o <<Op("remove script")>>
    /\ printed' = printed \o <<Line("Stopping local agent..."), Line("Local agent stopped.")>>
    /\ exit_status' = "0"
    /\ Goto("done")
    /\ UNCHANGED <<inputs, temp_dir, dir_exists, exc, cl_ret, retries>>
    /\ UNCHANGED notPipe

\* ---- coralize_github: the except clauses and the end ----

SetupError == "Error during GitHub coralization setup"
UnexpectedError == "An unexpected error occurred"

\* except (ValueError, RuntimeError, ImportError): print; if coralizer:
\* coralizer.cleanup(); raise typer.Exit(1)
CliExceptSetup ==
    /\ pc = "cli_except_setup"
    /\ Say(SetupError)
    /\ exc' = "Exit"
    /\ CallCleanup("cli_exit")
    /\ UNCHANGED <<inputs, temp_dir, dir_exists, exit_status, ops, retries>>
    /\ UNCHANGED notPipe

\* except Exception: print, traceback; if coralizer: coralizer.cleanup();
\* raise typer.Exit(1)
CliExceptUnexpected ==
    /\ pc = "cli_except_unexpected"
    /\ Say(UnexpectedError)
    /\ exc' = "Exit"
    /\ CallCleanup("cli_exit")
    /\ UNCHANGED <<inputs, temp_dir, dir_exists, exit_status, ops, retries>>
    /\ UNCHANGED notPipe

\* typer.Exit(1) leaves the command
CliExit ==
    /\ pc = "cli_exit"
    /\ exit_status' = "1"
    /\ Goto("del")
    /\ UNCHANGED <<inputs, temp_dir, dir_exists, exc, printed, ops, cl_ret, retries>>
    /\ UNCHANGED notPipe

\* the command function returns
CliReturn ==
    /\ pc = "cli_return"
    /\ exit_status' = "0"
    /\ Goto("del")
    /\ UNCHANGED <<inputs, temp_dir, dir_exists, exc, printed, ops, cl_ret, retries>>
    /\ UNCHANGED notPipe

\* a KeyboardInterrupt that no clause of the command catches leaves it; the
\* process ends with a non-zero status
CliInterrupted ==
    /\ pc = "cli_unhandled"
    /\ exit_status' = "1"
    /\ Goto("del")
    /\ UNCHANGED <<inputs, temp_dir, dir_exists, exc, printed, ops, cl_ret, retries>>
    /\ UNCHANGED notPipe

\* a command end that never runs __del__
Del_absent ==
    /\ pc = "del"
    /\ Goto("done")
    /\ UNCHANGED <<inputs, temp_dir, dir_exists, exc, exit_status, printed, ops, cl_ret, retries>>
    /\ UNCHANGED notPipe

\* GitHubCoralizer.__del__: self.cleanup(), when the command's frame lets
\* go of the coralizer
Del ==
    /\ pc = "del"
    /\ CallCleanup("done")
    /\ UNCHANGED <<inputs, temp_dir, dir_exists, exc, exit_status, printed, ops, retries>>
    /\ UNCHANGED notPipe

-----------------------------------------------------------------------------
(* Several coralize-github --run docker commands at once.                  *)
(*                                                                         *)
(* Each request is a process of its own with its own GitHubCoralizer; what *)
(* the requests have in common is the temp root, where mkdtemp makes the   *)
(* working directories, and the Docker daemon, which keeps one namespace   *)
(* of image tags and one of container names.  The steps of a request are   *)
(* the ones that touch either: mkdtemp, the clone, docker build, docker    *)
(* run, docker stop and cleanup's rmtree.  Generation reads the request's  *)
(* own directory only and is part of the clone step's success.             *)

MaxRequests == 2
Reqs == 1..MaxRequests

\* the identifiers given with --agent-id
ReqAgentIds == {"a b", "A-B", "c"}

\* names that mkdtemp(prefix="coral_git_") can return
TmpNames == {"coral_git_1", "coral_git_2", "coral_git_3"}

ReqGoto(r, p) == req_pc' = [req_pc EXCEPT ![r] = p]

\* a docker command of request r naming the tag or container arg
Issue(r, op, arg) ==
    docker_cmds' = docker_cmds \cup {[req |-> r, op |-> op, arg |-> arg]}

\* tempfile.mkdtemp: a directory that did not exist is created
ReqMkdtemp(r) ==
    /\ req_pc[r] = "mkdtemp"
    /\ \E d \in TmpNames \ tmp_dirs :
           /\ tmp_dirs' = tmp_dirs \cup {d}
           /\ req_temp_dir' = [req_temp_dir EXCEPT ![r] = d]
    /\ ReqGoto(r, "clone")
    /\ UNCHANGED <<req_agent_id, images, containers, docker_cmds>>

\* clone_from and the generation succeed in the request's directory
ReqCloneOk(r) ==
    /\ req_pc[r] = "clone"
    /\ ReqGoto(r, "build")
    /\ UNCHANGED <<req_agent_id, req_temp_dir, tmp_dirs, images, containers,
                   docker_cmds>>

\* clone_from raises: cleanup() is called
ReqCloneFails(r) ==
    /\ req_pc[r] = "clone"
    /\ ReqGoto(r, "cleanup")
    /\ UNCHANGED <<req_agent_id, req_temp_dir, tmp_dirs, images, containers,
                   docker_cmds>>

\* docker build -t image_name . succeeds: the tag now names r's image
ReqBuildOk(r) ==
    /\ req_pc[r] = "build"
    /\ Issue(r, "docker build", image_name(req_agent_id[r]))
    /\ images' = {i \in images : i.tag # image_name(req_agent_id[r])}
                 \cup {[tag |-> image_name(req_agent_id[r]), builder |-> r]}
    /\ ReqGoto(r, "run")
    /\ UNCHANGED <<req_agent_id, req_temp_dir, tmp_dirs, containers>>

\* docker build returns non-zero: cleanup(), return
ReqBuildFails(r) ==
    /\ req_pc[r] = "build"
    /\ Issue(r, "docker build", image_name(req_agent_id[r]))
    /\ ReqGoto(r, "cleanup")
    /\ UNCHANGED <<req_agent_id, req_temp_dir, tmp_dirs, images, containers>>

\* docker run --rm --name container_name image_name: the daemon makes the
\* container from the image the tag names now
ReqRunStarts(r) ==
    /\ req_pc[r] = "run"
    /\ \A c \in containers : c.name # container_name(req_agent_id[r])
    /\ Issue(r, "docker run", container_name(req_agent_id[r]))
    /\ \E i \in images :
           /\ i.tag = image_name(req_agent_id[r])
           /\ containers' = containers \cup
                  {[name |-> container_name(req_agent_id[r]), owner |-> r,
                    image |-> i.builder]}
    /\ ReqGoto(r, "running")
    /\ UNCHANGED <<req_agent_id, req_temp_dir, tmp_dirs, images>>

\* docker run: the name is in use, the daemon refuses, CalledProcessError
ReqRunConflict(r) ==
    /\ req_pc[r] = "run"
    /\ \E c \in containers : c.name = container_name(req_agent_id[r])
    /\ Issue(r, "docker run", container_name(req_agent_id[r]))
    /\ ReqGoto(r, "cleanup")
    /\ UNCHANGED <<req_agent_id, req_temp_dir, tmp_dirs, images, containers>>

\* docker run returns: the container has exited or was stopped, and --rm
\* has removed it
ReqRunReturns(r) ==
    /\ req_pc[r] = "running"
    /\ containers' = {c \in containers : c.owner # r}
    /\ ReqGoto(r, "cleanup")
    /\ UNCHANGED <<req_agent_id, req_temp_dir, tmp_dirs, images, docker_cmds>>

\* KeyboardInterrupt once container_name is bound: docker stop
\* container_name stops whichever container has the name
ReqRunInterrupted(r) ==
    /\ req_pc[r] \in {"run", "running"}
    /\ Issue(r, "docker stop", container_name(req_agent_id[r]))
    /\ containers' =
           {c \in containers : c.name # container_name(req_agent_id[r])}
    /\ ReqGoto(r, "cleanup")
    /\ UNCHANGED <<req_agent_id, req_temp_dir, tmp_dirs, images>>

\* cleanup(): shutil.rmtree(self.temp_dir), temp_dir = None
ReqCleanupRemoved(r) ==
    /\ req_pc[r] = "cleanup"
    /\ tmp_dirs' = tmp_dirs \ {req_temp_dir[r]}
    /\ req_temp_dir' = [req_temp_dir EXCEPT ![r] = "None"]
    /\ ReqGoto(r, "done")
    /\ UNCHANGED <<req_agent_id, images, containers, docker_cmds>>

\* cleanup() gives up with a warning: the directory stays
ReqCleanupFails(r) ==
    /\ req_pc[r] = "cleanup"
    /\ ReqGoto(r, "done")
    /\ UNCHANGED <<req_agent_id, req_temp_dir, tmp_dirs, images, containers,
                   docker_cmds>>

ReqStep(r) ==
    \/ ReqMkdtemp(r)
    \/ ReqCloneOk(r)
    \/ ReqCloneFails(r)
    \/ ReqBuildOk(r)
    \/ ReqBuildFails(r)
    \/ ReqRunStarts(r)
    \/ ReqRunConflict(r)
    \/ ReqRunReturns(r)
    \/ ReqRunInterrupted(r)
    \/ ReqCleanupRemoved(r)
    \/ ReqCleanupFails(r)

-----------------------------------------------------------------------------
(* Properties of _get_code_context                                         *)

\* C2: the blob never exceeds MAX_CODE_CONTEXT_CHARS characters, and after
\* every file the counter total_chars is the blob's length.
C2_BlobWithinBudget ==
    /\ SumLen(code_context) <= MAX_CODE_CONTEXT_CHARS
    /\ total_chars = SumLen(code_context)

\* a run that filled the budget to the last character and then skipped a file
C2_Witness ==
    /\ ctx_pc = "done"
    /\ total_chars = MAX_CODE_CONTEXT_CHARS
    /\ SumLen(code_context) = MAX_CODE_CONTEXT_CHARS
    /\ \E k \in DOMAIN ctx_printed : ctx_printed[k] = SkipWarning("requirements.txt")

\* the blob is a sequence of files, each its header followed by all of its content
WholeFiles(blob) ==
    /\ Len(blob) % 2 = 0
    /\ \A k \in DOMAIN blob :
         IF k % 2 = 1
         THEN /\ blob[k].part = "header"
              /\ blob[k].len = HeaderLen(blob[k].file)
              /\ \A j \in DOMAIN blob : (j % 2 = 1 /\ blob[j].file = blob[k].file) => j = k
         ELSE /\ blob[k].part = "content"
              /\ blob[k].file = blob[k - 1].file
              /\ FileOf(blob[k].file).kind = "file"
              /\ blob[k].len = FileOf(blob[k].file).size

\* this step handed a path to add_content
CallsAddContent ==
    \/ ctx_pc = "priority" /\ ctx_i' = ctx_i + 1
    \/ /\ ctx_pc = "others" /\ ctx_todo' # ctx_todo
       /\ ~InDotGit(ctx_cur') /\ ctx_cur' \notin processed_files

\* path f is a readable file, not yet embedded, that does not fit any more
OverBudget(f) ==
    /\ FileOf(f).kind = "file"
    /\ f \notin processed_files
    /\ total_chars + FileOf(f).size + HeaderLen(f) > MAX_CODE_CONTEXT_CHARS

\* C3: every file is in the blob whole (header, then all of its content) or
\* not at all; a file that add_content is handed and that would push the
\* blob over the budget leaves the blob as it was and a warning naming it
\* is printed. (Each loop stops at the first such file: the files after it
\* in that loop are never handed to add_content.)
C3_WholeOrNothing ==
    /\ [] WholeFiles(code_context)
    /\ [][ (CallsAddContent /\ OverBudget(ctx_cur'))
             => /\ code_context' = code_context
                /\ Len(ctx_printed') > Len(ctx_printed)
                /\ ctx_printed'[Len(ctx_printed) + 1] = SkipWarning(ctx_cur') ]_vars

\* main.py went in whole and utils.py, which no longer fitted, was left out
C3_Witness ==
    /\ ctx_pc = "done"
    /\ \E k \in DOMAIN code_context :
         /\ code_context[k] = [file |-> "main.py", part |-> "content", len |-> HalfFile]
    /\ \E k \in DOMAIN ctx_printed : ctx_printed[k] = SkipWarning("utils.py")
    /\ \A k \in DOMAIN code_context : code_context[k].file # "utils.py"

\* some file has been skipped because it did not fit
SkippedForBudget ==
    \E k \in DOMAIN ctx_printed, f \in CtxPaths : ctx_printed[k] = SkipWarning(f)

\* C23: once a file has been skipped because adding it would exceed the
\* budget, nothing more is appended to the blob, neither a priority file
\* nor a *.py file of the second pass.
C23_NothingAppendedAfterSkip ==
    [][SkippedForBudget => code_context' = code_context]_vars

\* this step is the priority loop's iteration for a candidate that does not
\* exist, resp. that exists and cannot be read
PriorityStepOn(kinds) ==
    /\ ctx_pc = "priority" /\ ctx_i' = ctx_i + 1
    /\ FileOf(ctx_cur').kind \in kinds

\* the candidate left the blob and the counters alone and the loop goes on
\* with the next candidate
SkippedLocally ==
    /\ code_context' = code_context /\ total_chars' = total_chars
    /\ files_read' = files_read /\ processed_files' = processed_files
    /\ ctx_pc' = "priority"

-----------------------------------------------------------------------------
(* Properties of _get_file_tree                                            *)

\* C4: the summary returned by _get_file_tree has at most MAX_TREE_CHARS
\* characters, the truncation marker included.
C4_TreeWithinBudget ==
    tree_pc = "done" => SumLen(tree_str) <= MAX_TREE_CHARS

\* the directories (other than .git) and files of the tree
TreeDirs(t) ==
    {"root"} \cup (IF t.pkg.present THEN {"pkg"} ELSE {})
             \cup (IF t.sub.present THEN {"pkg/sub"} ELSE {})
WalkedEntries(t) ==
    UNION { {DirEntry(d)} \cup {FileEntry(d, k) : k \in 1..Shape(t, d).n} : d \in TreeDirs(t) }
LinkEntries(t) == IF t.link THEN {DirEntry("link")} ELSE {}
AllEntries(t) == WalkedEntries(t) \cup LinkEntries(t)

Listed(s) == {s[k].entry : k \in DOMAIN s}
EndsWithMarker(s) == s # <<>> /\ s[Len(s)].entry = MarkerEntry

\* C5 as stated: a summary that omits a directory or file entry of the tree
\* (other than .git) ends with the truncation marker.
C5_NoSilentOmission ==
    (tree_pc = "done" /\ AllEntries(tree_in) \ Listed(tree_str) # {})
        => EndsWithMarker(tree_str)

\* C5 amended: a summary that omits an entry other than .git and other than
\* a symbolic link to a directory ends with the truncation marker.
C5_TruncationMarked ==
    (tree_pc = "done" /\ WalkedEntries(tree_in) \ Listed(tree_str) # {})
        => EndsWithMarker(tree_str)

\* a truncated summary: files of pkg/sub are missing and the marker ends it
C5_Witness ==
    /\ tree_pc = "done"
    /\ FileEntry("pkg/sub", 1) \in WalkedEntries(tree_in) \ Listed(tree_str)
    /\ EndsWithMarker(tree_str)

-----------------------------------------------------------------------------
(* Properties of _parse_generated_code                                     *)

\* a python-tagged fence: the tag, at least the line end after it, and a
\* closing fence further on; its interior lies between the tag and the first
\* fence after it
FenceOpens(r) ==
    {i \in 1..Len(r) : /\ TagAt(r, i)
                       /\ i + 2 <= Len(r) /\ IsSpace(r[i + 2])
                       /\ \E j \in (i + 3)..Len(r) : r[j] = FENCE}
FirstFenceInterior(r) ==
    LET i == Min(FenceOpens(r))
        j == Min({j \in (i + 3)..Len(r) : r[j] = FENCE})
    IN SubSeq(r, i + 2, j - 1)

\* C6: for a response with a python-tagged fenced block the result is the
\* interior of the first such fence, stripped, and nothing from outside it.
C6_FenceInteriorReturned ==
    (parse_pc = "done" /\ FenceOpens(response_content) # {}
       /\ \A i \in 1..Len(response_content) :
            TagAt(response_content, i) => i >= Min(FenceOpens(response_content)))
        => parse_result = << strip(FirstFenceInterior(response_content)) >>

\* the tag is nowhere followed by a closing fence
NoPythonFence(r) ==
    \A i \in 1..Len(r) : TagAt(r, i) => \A j \in (i + 2)..Len(r) : r[j] # FENCE

\* C7: for a response with no python-tagged fence and no structural marker
\* the result is None, and what is printed holds the whole raw response.
C7_UnparsableIsNone ==
    (/\ parse_pc = "done"
     /\ NoPythonFence(response_content)
     /\ "import asyncio" \notin Range(response_content)
     /\ "MCPToolkit" \notin Range(response_content))
        => /\ parse_result = <<>>
           /\ \E k \in DOMAIN parse_printed :
                parse_printed[k].shown = << response_content >>

\* an opening tag that is never closed, and no marker
C7_Witness ==
    /\ parse_pc = "done"
    /\ response_content = <<"x", FENCE, "python", "\n", "x">>
    /\ parse_result = <<>>
    /\ parse_printed = << ParseError(response_content) >>

\* a python-tagged fenced block: the tag, something after it, and a closing
\* fence further on
FencedBlock(r) ==
    \E i \in 1..Len(r) : TagAt(r, i) /\ \E j \in (i + 3)..Len(r) : r[j] = FENCE

\* both structural markers are in the response
BothMarkers(r) == {"import asyncio", "MCPToolkit"} \subseteq Range(r)

\* C22: for a response with no python-tagged fence the result is the
\* stripped raw response exactly when both markers are in it, and None with
\* one marker or none; for a response with a python-tagged fenced block the
\* heuristic is not used, whatever markers the response holds: the result
\* is a text, not the raw response, and no fallback warning is printed.
C22_HeuristicOnlyWithoutFence ==
    parse_pc = "done" =>
        /\ NoPythonFence(response_content) =>
               /\ BothMarkers(response_content) <=>
                      parse_result = << strip(response_content) >>
               /\ ~BothMarkers(response_content) => parse_result = <<>>
        /\ FencedBlock(response_content) =>
               /\ parse_result # <<>>
               /\ parse_result # << strip(response_content) >>
               /\ RawWarning \notin Range(parse_printed)

\* raw code with both markers and no fence came back stripped
C22_Witness ==
    /\ parse_pc = "done"
    /\ response_content = <<"\n", "import asyncio", "x", "MCPToolkit", "\n">>
    /\ parse_result = << <<"import asyncio", "x", "MCPToolkit">> >>
    /\ parse_printed = << RawWarning >>

-----------------------------------------------------------------------------
(* Properties of generate_dockerfile                                       *)

\* the lines after the install heading, up to the next empty line
RECURSIVE UpToBlank(_)
UpToBlank(s) == IF s = <<>> \/ Head(s) = "" THEN <<>> ELSE <<Head(s)>> \o UpToBlank(Tail(s))
InstallSection(df) ==
    LET at == {k \in DOMAIN df : df[k] = InstallHeading}
    IN IF at = {} THEN <<>> ELSE UpToBlank(SubSeq(df, Min(at) + 1, Len(df)))

RECURSIVE Without(_, _)
Without(s, drop) ==
    IF s = <<>> THEN <<>>
    ELSE IF Head(s) \in drop THEN Without(Tail(s), drop)
    ELSE <<Head(s)>> \o Without(Tail(s), drop)

\* the COPY lines that setup.py may bring along, and the placeholder
Incidental ==
    {"COPY setup.cfg .", "COPY MANIFEST.in .", "COPY src ./src",
     "COPY coral_git_abcdefgh ./coral_git_abcdefgh",
     "# Add necessary pip installs here if needed"}

\* C9: the install steps of a manifest are emitted exactly when the manifest
\* exists, requirements.txt first, then setup.py, then pyproject.toml, and
\* the camel-ai install comes once, after all of them.
C9_InstallStepsInOrder ==
    dock_pc = "done" =>
      LET sec == InstallSection(dockerfile) IN
      /\ Without(sec, Incidental) =
            (IF "requirements.txt" \in dock_in
             THEN <<"COPY requirements.txt .",
                    "RUN pip install --no-cache-dir -r requirements.txt">> ELSE <<>>)
            \o (IF "setup.py" \in dock_in
                THEN <<"COPY setup.py .", "RUN pip install --no-cache-dir .">> ELSE <<>>)
            \o (IF "pyproject.toml" \in dock_in
                THEN <<"COPY pyproject.toml .", "COPY poetry.lock .",
                       "RUN pip install --no-cache-dir poetry",
                       "RUN poetry config virtualenvs.create false && poetry install --no-dev --no-interaction --no-ansi">>
                ELSE <<>>)
            \o <<"RUN pip install --no-cache-dir 'camel-ai[web-tools]>=0.2.0,<0.3.0'">>
      /\ sec # <<>>
      /\ sec[Len(sec)] = "RUN pip install --no-cache-dir 'camel-ai[web-tools]>=0.2.0,<0.3.0'"
      /\ Cardinality({k \in DOMAIN dockerfile :
            dockerfile[k] = "RUN pip install --no-cache-dir 'camel-ai[web-tools]>=0.2.0,<0.3.0'"}) = 1

\* all three manifests present, with what setup.py brings along
C9_Witness ==
    /\ dock_pc = "done"
    /\ {"requirements.txt", "setup.py", "pyproject.toml", "setup.cfg", "src"} \subseteq dock_in
    /\ RootName \notin dock_in
    /\ "COPY src ./src" \in Range(InstallSection(dockerfile))
    /\ Len(InstallSection(dockerfile)) = 12 - (IF "MANIFEST.in" \in dock_in THEN 0 ELSE 1)

\* C10: without any of the three manifests generate_dockerfile still returns
\* a Dockerfile, whose install section is the placeholder and then the
\* camel-ai install; the placeholder appears in no other case.
C10_PlaceholderWhenNoManifest ==
    dock_pc = "done" =>
      LET none == dock_in \cap {"requirements.txt", "setup.py", "pyproject.toml"} = {} IN
      /\ dockerfile # <<>>
      /\ none => InstallSection(dockerfile) =
                   <<"# Add necessary pip installs here if needed",
                     "RUN pip install --no-cache-dir 'camel-ai[web-tools]>=0.2.0,<0.3.0'">>
      /\ ("# Add necessary pip installs here if needed" \in Range(dockerfile)) => none

\* no manifest, though setup.cfg and src exist
C10_Witness ==
    /\ dock_pc = "done"
    /\ dock_in = {"setup.cfg", "src", "poetry.lock"}
    /\ Placeholder \in Range(dockerfile)
    /\ "CMD [\"python\", \"-u\", \"/app/coral_wrapper.py\"]" \in Range(dockerfile)

\* the COPY steps of the install section and the path each takes from the
\* working directory
CopiedPath ==
    [line \in {"COPY " \o q \o " ." : q \in DockPaths \ {RootName, "src"}}
             \cup {"COPY src ./src", "COPY " \o RootName \o " ./" \o RootName} |->
        CHOOSE q \in DockPaths :
            line \in {"COPY " \o q \o " .", "COPY " \o q \o " ./" \o q}]

\* C30: with pyproject.toml present the step 'COPY poetry.lock .' is emitted
\* only if poetry.lock exists in the working directory, and every COPY step
\* of the install section names a path that exists there.
C30_CopyOnlyWhatExists ==
    dock_pc = "done" =>
      LET sec == InstallSection(dockerfile) IN
      /\ ("COPY poetry.lock ." \in Range(sec)) => "poetry.lock" \in dock_in
      /\ \A k \in DOMAIN sec :
            sec[k] \in DOMAIN CopiedPath => CopiedPath[sec[k]] \in dock_in

\* every COPY step other than that of poetry.lock names an existing path
CopyStepsButLockExist ==
    dock_pc = "done" =>
      LET sec == InstallSection(dockerfile) IN
      \A k \in DOMAIN sec :
          (sec[k] \in DOMAIN CopiedPath /\ sec[k] # "COPY poetry.lock .")
              => CopiedPath[sec[k]] \in dock_in

-----------------------------------------------------------------------------
(* Properties of the command                                               *)

\* C1 as stated: when the command has ended, the working directory made by
\* _clone_repo is gone, unless a cleanup() call used up its retries and
\* printed its warning.
C1_DirectoryGoneOrRetriesExhausted ==
    pc = "done" => (~dir_exists \/ Printed(ExhaustedWarning))

\* C1 amended: when the command has ended, the working directory is gone,
\* unless a cleanup() call failed to delete it, by using up its retries on
\* permission errors or by another deletion error, and printed a warning,
\* or the operator interrupted the last deletion itself.
C1_DirectoryGoneOrWarned ==
    pc = "done" =>
        \/ ~dir_exists
        \/ Printed(ExhaustedWarning)
        \/ Printed(FailedWarning)
        \/ (ops # <<>> /\ ops[Len(ops)].op = InterruptedOp)

\* an interrupted agent request, after which the directory was removed
C1_Witness ==
    /\ pc = "done"
    /\ exc = "KeyboardInterrupt"
    /\ Did("astep")
    /\ ~dir_exists /\ temp_dir = "None"
    /\ Printed(CleanedMsg)

-----------------------------------------------------------------------------
(* Properties of build_and_run                                             *)

FailedBuilds == {k \in DOMAIN ops : ops[k].op = "docker build" /\ ops[k].rc # 0}

\* the text holds both phrases, in any letter case
MentionsSocketPermission(stderr) ==
    /\ \E i \in DOMAIN stderr : stderr[i] \in {"permission denied", "Permission Denied"}
    /\ \E j \in DOMAIN stderr : stderr[j] \in {"docker.sock", "DOCKER.SOCK"}

\* C11: after a failed container build the remediation text is printed, and
\* the raw stderr is not, exactly when the stderr holds both "permission
\* denied" and "docker.sock" in any letter case; otherwise the raw stderr is
\* printed and the remediation is not; either way no container run is
\* started.
C11_BuildFailureClassified ==
    \A k \in FailedBuilds :
        LET stderr == ops[k].err
            remediation == Printed(PermissionError)
            raw == \E j \in DOMAIN printed :
                      printed[j] = Shows("stderr", stderr) /\ printed[j - 1].text = BuildError
        IN /\ remediation <=> MentionsSocketPermission(stderr)
           /\ raw <=> ~MentionsSocketPermission(stderr)
           /\ ~Did("docker run")
           /\ pc \notin {"br_run", "mcp_run"}

\* a failed build whose stderr has both phrases in capitals, classified
C11_Witness ==
    /\ pc = "done"
    /\ \E k \in FailedBuilds : ops[k].err = <<"Permission Denied", "DOCKER.SOCK">>
    /\ Printed(PermissionError)
    /\ ~Printed(BuildError)

\* the stop commands issued for an interrupted container run
RunInterruptions ==
    {k \in DOMAIN ops : k > 1 /\ ops[k].op = "docker stop" /\ ops[k - 1].op = "docker run"}

\* C18: when the container run is interrupted, the stop command names the
\* container that the run command named; whether or not the stop command
\* succeeds, no exception is in flight afterwards, the temporary directory
\* is cleaned up (cleanup(), or the end of the with block of the MCP
\* coralizer) and build_and_run returns to its caller, unless the operator
\* interrupts the cleanup as well.
C18_RunInterruptStopsAndReturns ==
    \A k \in RunInterruptions :
        /\ ops[k].arg = ops[k - 1].arg
        /\ ops[k].arg = <<"coral-agent-">> \o Sanitized(agent_id)
        /\ Did(InterruptedOp) \/
             /\ exc = "none" /\ exit_status \in {"running", "0"}
             /\ pc \in {"br_finally", "mcp_with_exit", "cleanup", "rmtree",
                         "cli_return", "del", "done"}
             /\ pc \in {"cli_return", "del", "done"} =>
                    \E j \in DOMAIN ops : j > k /\ ops[j].op \in {"cleanup", "rmtree"}

\* an interrupted run whose stop command failed, and the command at its end
C18_Witness ==
    /\ pc = "done" /\ exc = "none" /\ exit_status = "0"
    /\ \E k \in RunInterruptions : ops[k].rc # 0
    /\ ~dir_exists /\ Printed(CleanedMsg)

\* the docker commands and the file writes of build_and_run
ExternalOps == {"write coral_wrapper.py", "write Dockerfile",
                "docker build", "docker run", "docker stop"}

\* C25: in GitHubCoralizer.build_and_run the wrapper file and the
\* Dockerfile are both written before the build is started, the run is
\* started only after a build that returned success, and no write and no
\* docker command comes after a call of cleanup().
C25_BuildAndRunOrder ==
    \A k \in DOMAIN ops :
        /\ (ops[k].op = "docker build" /\ ops[k].arg = image_name(agent_id)) =>
               \E i, j \in 1..(k - 1) :
                   /\ i < j
                   /\ ops[i] = Op("write coral_wrapper.py")
                   /\ ops[j] = Op("write Dockerfile")
        /\ (ops[k].op = "docker run" /\ Did("write Dockerfile")) =>
               /\ k > 1
               /\ ops[k - 1].op = "docker build" /\ ops[k - 1].rc = 0
        /\ ops[k].op = "cleanup" =>
               \A j \in (k + 1)..Len(ops) : ops[j].op \notin ExternalOps

\* the files were written, the image built, the container run to its end,
\* and the directory removed by the cleanup() of the finally clause
C25_Witness ==
    /\ pc = "cli_return"
    /\ ops = << Op("write coral_wrapper.py"), Op("write Dockerfile"),
                OpArg("docker build", image_name(agent_id)),
                OpArg("docker run", container_name(agent_id)),
                Op("cleanup"), Op("rmtree") >>

\* the interrupt handler of GitHubCoralizer.build_and_run was entered while
\* the build was running: its first line is printed and no run was started
BuildWasInterrupted ==
    /\ Did("write Dockerfile")
    /\ Printed("Stopping Docker container...")
    /\ ~Did("docker run")

\* C26: an interrupt during the container build of
\* GitHubCoralizer.build_and_run is a graceful shutdown: the stop command
\* is issued, cleanup() runs, and build_and_run returns to the command with
\* no exception in flight, so that the command ends with status 0.
C26_BuildInterruptGraceful ==
    BuildWasInterrupted =>
        /\ Did("docker stop")
        /\ exc = "none"
        /\ exit_status \in {"running", "0"}
        /\ pc \in {"cli_return", "del", "done"} => Did("cleanup")

\* the local runs, of either command, that the operator interrupted
LocalRunInterruptions ==
    {k \in DOMAIN ops : ops[k] \in {InterruptedRun("python coral_wrapper.py"),
                                    InterruptedRun("python script")}}

\* the child of the interrupted run k is sent a termination signal at once
Terminated(k) == k < Len(ops) /\ ops[k + 1].op = "terminate"

\* the cleanup of the command comes after the interrupted run k
CleanedAfter(k) ==
    \E j \in DOMAIN ops : j > k /\ ops[j].op \in {"cleanup", "remove script"}

\* what coralize_mcp does on an interrupt of its local run
McpLocalInterruptForwarded ==
    \A k \in LocalRunInterruptions :
        ops[k].op = "python script" => Terminated(k) /\ CleanedAfter(k)

\* C28: when the operator interrupts the local run of coralize-github or of
\* coralize-mcp, a termination signal is sent to the child before the
\* command goes on, and the cleanup runs afterwards: the working directory,
\* or the temporary script, is removed.
C28_LocalInterruptForwarded ==
    \A k \in LocalRunInterruptions :
        /\ Terminated(k)
        /\ pc = "done" => CleanedAfter(k)

-----------------------------------------------------------------------------
(* Properties of the command's error paths                                 *)

CloneFailed == \E k \in DOMAIN ops : ops[k].op \in {"mkdtemp", "git clone"} /\ ops[k].rc # 0
GenerationHasFailed == Printed(GenerationError)
Interrupted == Did(InterruptedOp) \/ exc = "KeyboardInterrupt"

\* C12: after a failed clone or a failed wrapper generation nothing is
\* written into the clone and no build is started; unless the operator
\* interrupts, the exception leaves the command only after cleanup() was
\* called and a diagnostic of the command was printed, and the exit status
\* is 1.
C12_FatalSetupErrors ==
    (CloneFailed \/ GenerationHasFailed) =>
        /\ ~Did("write files") /\ ~Did("write coral_wrapper.py") /\ ~Did("move")
        /\ ~Did("docker build") /\ ~Did("docker run")
        /\ exit_status \in {"running", "1"}
        /\ Interrupted \/
             /\ pc \in {"cli_exit", "del", "done"} =>
                    /\ Did("cleanup")
                    /\ Printed(SetupError) \/ Printed(UnexpectedError)
             /\ pc = "done" => exit_status = "1"

\* an agent that could not be created, and the command ended for it
C12_Witness ==
    /\ pc = "done" /\ exit_status = "1"
    /\ Printed(AgentCreateError) /\ GenerationHasFailed
    /\ Printed(SetupError)
    /\ ~dir_exists /\ ~Interrupted

\* C19: the generation agent is asked at most once in a run: not at all
\* when it could not be created, and exactly once, whatever comes back, when
\* it was created.
C19_OneAgentRequest ==
    /\ Count(ops, "astep") <= 1
    /\ Printed(AgentCreateError) => Count(ops, "astep") = 0
    /\ (/\ Did("create agent") /\ ~Printed(AgentCreateError)
        /\ pc # "agent_request") => Count(ops, "astep") = 1

\* a request that failed, and the command ended without a second one
C19_Witness ==
    /\ pc = "done"
    /\ Printed(AgentStepError) \/ Printed(AgentNoResponse)
    /\ Count(ops, "astep") = 1
    /\ GenerationHasFailed

\* the RuntimeError of _clone_repo has reached the command
CloneErrorAtCaller == pc = "cli_except_setup" /\ exc = "RuntimeError"

\* cleanup() was called after the clone command came back
CleanupAfterClone ==
    \E i, j \in DOMAIN ops : i < j /\ ops[i].op = "git clone" /\ ops[j].op = "cleanup"

\* C14 as stated: when the RuntimeError of a failed clone reaches the
\* caller, cleanup() has been called and the temporary directory is gone,
\* unless the deletion retries were used up.
C14_CloneFailureLeavesNoDirectory ==
    CloneErrorAtCaller =>
        /\ CleanupAfterClone
        /\ ~dir_exists \/ Printed(ExhaustedWarning)

\* C14 amended: when the RuntimeError of a failed clone reaches the caller,
\* cleanup() has been called and the temporary directory is gone, unless
\* the deletion failed, by using up its retries or by another error, and a
\* warning was printed.
C14_CloneFailureCleansUp ==
    CloneErrorAtCaller =>
        /\ CleanupAfterClone
        /\ ~dir_exists \/ Printed(ExhaustedWarning) \/ Printed(FailedWarning)

\* a failed clone whose directory was removed before the error arrived
C14_Witness ==
    /\ CloneErrorAtCaller
    /\ ~dir_exists /\ temp_dir = "None"
    /\ Printed(CleanedMsg)

FailedRuns == {k \in DOMAIN ops : ops[k].op = "docker run" /\ ops[k].rc # 0}

\* C13: in docker mode, when the build or the run returned non-zero, docker
\* was not found or the generated files could not be written, a diagnostic
\* is printed and the command ends with a non-zero exit status.
C13_BuildRunErrorsExitNonZero ==
    (/\ pc = "done" /\ run_mode = "docker" /\ ~output_dir
     /\ \/ FailedBuilds # {} \/ FailedRuns # {}
        \/ Printed(NoDockerError) \/ Printed(WriteError))
      => /\ \/ Printed(PermissionError) \/ Printed(BuildError) \/ Printed(RunError)
            \/ Printed(NoDockerError) \/ Printed(WriteError)
         /\ exit_status # "0"

\* _generate_wrapper_with_camel_agent is at work
InGenerate == pc \in {"agent_create", "agent_request"}

\* the diagnostics of the method for an agent that could not be created, a
\* request that raised, and a response with no message
AgentDiagnostics == {AgentCreateError, AgentStepError, AgentNoResponse}

\* C29: no exception of the generation agent leaves
\* _generate_wrapper_with_camel_agent.  Unless the operator interrupts, a
\* step of the method goes on inside it or returns to coralize() with no
\* exception in flight: with None, after one of the three diagnostics or
\* after the answer was given to _parse_generated_code, or with the wrapper
\* text that _parse_generated_code made of the answer.
C29_AgentErrorsBecomeNone ==
    [][(InGenerate /\ exc' # "KeyboardInterrupt") =>
          /\ exc' = "none"
          /\ pc' \in {"agent_request", "gen_failed", "dockerfile"}
          /\ pc' = "gen_failed" =>
                \/ \E d \in AgentDiagnostics : printed' = Append(printed, Line(d))
                \/ /\ Len(printed') > Len(printed)
                   /\ printed'[Len(printed) + 1] = Line("Agent generation complete.")
                   /\ ~Truthy(GeneratedWrapper.result)
          /\ pc' = "dockerfile" => Truthy(GeneratedWrapper.result)]_vars

\* the request raised: its diagnostic is the last thing printed, and the
\* method has returned None to coralize() with no exception in flight
C29_Witness ==
    /\ pc = "gen_failed" /\ exc = "none"
    /\ printed # <<>> /\ printed[Len(printed)] = Line(AgentStepError)
    /\ Count(ops, "astep") = 1

\* the steps of the pipeline before the wrapper exists: the clone, the scan
\* of structure and context, the request to the generation agent
PipelineSteps == {"cloning", "scan", "agent_request"}

\* an interrupt arrives during one of these steps
PipelineStepInterrupted ==
    pc \in PipelineSteps /\ exc' = "KeyboardInterrupt"

\* the places from where an except clause of _clone_repo, of coralize() or
\* of the command has called cleanup()
HandlerReturns == {"cli_except_setup", "cli_except_unexpected", "cli_exit"}

-----------------------------------------------------------------------------
(* Properties of cleanup                                                   *)

\* the operations of the latest cleanup() call
LastCleanup ==
    LET at == {k \in DOMAIN ops : ops[k].op = "cleanup"}
    IN IF at = {} THEN 0 ELSE CHOOSE k \in at : \A j \in at : j <= k
CallOps == SubSeq(ops, LastCleanup + 1, Len(ops))
InCleanup == pc \in {"cleanup", "rmtree"}

\* C15: one cleanup() call makes at most 3 deletion attempts and at most 2
\* waits; after a permission failure with retries left it waits and tries
\* again; after the third failure it prints the warning and returns at
\* once, the directory left in place; and every call comes to an end.
C15_CleanupBounded ==
    /\ [](/\ Count(CallOps, "rmtree") <= 3
          /\ Count(CallOps, "sleep") <= 2
          /\ pc = "rmtree" =>
                /\ retries \in 1..3
                /\ Count(CallOps, "rmtree") = 3 - retries
                /\ Count(CallOps, "sleep") = 3 - retries)
    /\ [][(pc = "rmtree" /\ retries' = retries - 1) =>
             IF retries' > 0
             THEN /\ pc' = "rmtree"
                  /\ ops' = ops \o <<OpFailed("rmtree", <<>>, <<>>), Op("sleep")>>
                  /\ printed' = Append(printed, Line(RetryWarning))
             ELSE /\ Count(CallOps, "rmtree") = 2
                  /\ pc' = cl_ret
                  /\ ops' = Append(ops, OpFailed("rmtree", <<>>, <<>>))
                  /\ printed' = Append(printed, Line(ExhaustedWarning))
                  /\ dir_exists' /\ exc' = exc]_vars
    /\ (InCleanup ~> ~InCleanup)

\* a call that failed three times, waited twice and returned
C15_Witness ==
    /\ ~InCleanup
    /\ Len(CallOps) = 5
    /\ [k \in 1..5 |-> CallOps[k].op] = <<"rmtree", "sleep", "rmtree", "sleep", "rmtree">>
    /\ printed[Len(printed)] = Line(ExhaustedWarning)
    /\ dir_exists

\* this step ends a cleanup() call that the operator did not interrupt
CleanupReturns == pc = "rmtree" /\ pc' # "rmtree" /\ ~Did(InterruptedOp)'

\* C16: a cleanup() call returns to its caller whether the deletion worked
\* or not: the exception in flight and the exit status are as before the
\* call, and a directory left in place comes with a warning; the exit
\* status of the command is 1 exactly when one of its error clauses ran,
\* whatever became of the directory.
C16_CleanupFailureNotEscalated ==
    /\ [][CleanupReturns =>
             /\ pc' = cl_ret
             /\ exc' = exc /\ exit_status' = exit_status
             /\ dir_exists' =>
                   printed'[Len(printed')].text \in {ExhaustedWarning, FailedWarning}]_vars
    /\ []((pc = "done" /\ ~Interrupted) =>
            (exit_status = "1" <=> (Printed(SetupError) \/ Printed(UnexpectedError))))

\* a container that ran, a deletion that failed, and the exit status 0
C16_Witness ==
    /\ pc = "done" /\ exit_status = "0"
    /\ \E k \in DOMAIN ops : ops[k].op = "docker run" /\ ops[k].rc = 0
    /\ dir_exists /\ Printed(FailedWarning)
    /\ ~Interrupted

Removals == {k \in DOMAIN ops : ops[k].op = "rmtree" /\ ops[k].rc = 0}

\* C17: a cleanup() call made when no directory was allocated, or after the
\* directory was removed or moved away, returns to its caller and changes
\* nothing; once a deletion has succeeded no further deletion is attempted.
C17_CleanupIdempotent ==
    /\ [][(pc = "cleanup" /\ (temp_dir = "None" \/ ~dir_exists)) =>
             /\ pc' = cl_ret
             /\ ops' = Append(ops, Op("cleanup"))
             /\ UNCHANGED <<temp_dir, dir_exists, exc, exit_status, printed, retries,
                            cl_ret, inputs>>]_vars
    /\ [](\A i \in Removals : \A j \in DOMAIN ops :
              j > i => ops[j].op \notin {"rmtree", "sleep"})

\* the directory removed by one call, and two more calls after it
C17_Witness ==
    /\ pc = "done"
    /\ \E i \in Removals : \E j, k \in DOMAIN ops :
          i < j /\ j < k /\ ops[j].op = "cleanup" /\ ops[k].op = "cleanup"
    /\ Count(ops, "rmtree") = 1

-----------------------------------------------------------------------------
(* Properties of concurrent requests                                       *)

\* request r has a working directory and request s has the same one
SameDirectory(r, s) ==
    req_temp_dir[r] # "None" /\ req_temp_dir[r] = req_temp_dir[s]

\* the working directory of request r has been removed, and not by r,
\* whose cleanup() forgets the path when it removes the directory
DirectoryRemovedByOther(r) ==
    req_temp_dir[r] # "None" /\ req_temp_dir[r] \notin tmp_dirs

\* a docker command of r and one of s name the same tag or container
SameDockerName(r, s) ==
    \E c \in docker_cmds, d \in docker_cmds :
        c.req = r /\ d.req = s /\ c.arg = d.arg

\* The working directories of concurrent requests are distinct, and one is
\* removed by its own request only.
WorkingDirectoriesApart ==
    \A r, s \in Reqs :
        r # s => ~SameDirectory(r, s) /\ ~DirectoryRemovedByOther(r)

\* C20: concurrent requests, the same agent identifier included, have
\* nothing in common: no two use the same working directory, no cleanup
\* removes another request's directory, and no build, run or stop command
\* of one names an image tag or a container name that a command of another
\* names.
C20_RequestsShareNothing ==
    \A r, s \in Reqs :
        r # s => /\ ~SameDirectory(r, s)
                 /\ ~DirectoryRemovedByOther(r)
                 /\ ~SameDockerName(r, s)

\* what the shared names lead to: a container of one request runs the image
\* that another request built
RunsForeignImage == \E c \in containers : c.image # c.owner

\* two requests whose identifiers differ have issued commands on one name
DistinctIdsCollide ==
    \E r, s \in Reqs :
        req_agent_id[r] # req_agent_id[s] /\ SameDockerName(r, s)

-----------------------------------------------------------------------------
(* Properties of coralize() and of what the command does with its result   *)

\* the places of the command where it works with the values coralize()
\* returned: the test of the values, then saving, build_and_run, local run
AfterCoralizeReturned == {"cli_output", "save", "br_write", "local_write"}

\* the reply has a python fence and nothing but whitespace in it
BlankFence(r) == re_search(r) # <<>> /\ strip(re_search(r)[1]) = <<>>

-----------------------------------------------------------------------------
(* Specifications: one for each part, the other parts at rest              *)

CtxIdle ==
    /\ repo_files = << >>
    /\ ctx_pc = "idle" /\ ctx_i = 1 /\ ctx_todo = {} /\ ctx_cur = ""
    /\ code_context = <<>> /\ total_chars = 0 /\ files_read = 0
    /\ processed_files = {} /\ ctx_printed = <<>>

TreeIdle ==
    /\ tree_in = [root |-> NoDir, pkg |-> NoDir, sub |-> NoDir, git |-> FALSE, link |-> FALSE]
    /\ tree_pc = "idle" /\ tree_walk = <<>> /\ tree_str = <<>>
    /\ file_count = 0 /\ tree_printed = <<>>

ParseIdle ==
    /\ response_content = <<>> /\ parse_pc = "idle"
    /\ parse_result = <<>> /\ parse_printed = <<>>

DockIdle ==
    /\ dock_in = {} /\ dock_pc = "idle" /\ dockerfile = <<>> /\ dock_printed = <<>>


PipeIdle ==
    /\ pc = "idle" /\ run_mode = "docker" /\ output_dir = FALSE /\ agent_id = "None"
    /\ temp_dir = "None" /\ dir_exists = FALSE /\ exc = "none"
    /\ exit_status = "running" /\ printed = <<>> /\ ops = <<>>
    /\ cl_ret = "idle" /\ retries = 0

ReqIdle ==
    /\ req_pc = [r \in Reqs |-> "idle"]
    /\ req_agent_id = [r \in Reqs |-> "c"]
    /\ req_temp_dir = [r \in Reqs |-> "None"]
    /\ tmp_dirs = {} /\ images = {} /\ containers = {} /\ docker_cmds = {}

\* the command after its prerequisite checks, the coralizer constructed
Init ==
    /\ pc = "clone"
    /\ run_mode \in {"docker", "local", "other"}
    /\ output_dir \in BOOLEAN
    /\ agent_id \in AgentIds
    /\ temp_dir = "None" /\ dir_exists = FALSE /\ exc = "none"
    /\ exit_status = "running" /\ printed = <<>> /\ ops = <<>>
    /\ cl_ret = "idle" /\ retries = 0
    /\ CtxIdle /\ TreeIdle /\ ParseIdle /\ DockIdle /\ ReqIdle

Next ==
    \/ CleanupNothing \/ CleanupBegin \/ CleanupRemoved
    \/ CleanupPermissionError \/ CleanupOtherError \/ CleanupInterrupted
    \/ CloneMkdtemp \/ CloneMkdtempFails \/ CloneOk \/ CloneFails \/ CloneInterrupted
    \/ ScanOk \/ ScanRaises \/ ScanInterrupted
    \/ AgentCreateOk \/ AgentCreateFails
    \/ AgentRequestWrapper \/ AgentRequestUnparsable \/ AgentRequestFails
    \/ AgentRequestInterrupted
    \/ GenerationFailed \/ CoralizeReturns
    \/ CliGenerationFailed \/ CliDispatch
    \/ SaveOk \/ SaveMoveFails \/ SaveNoAgentId
    \/ BuildWriteOk \/ BuildWriteFails \/ BuildWriteInterrupted \/ BuildImageName
    \/ BuildOk \/ BuildFails \/ BuildNoDocker \/ BuildInterrupted
    \/ RunOk \/ RunFails \/ RunInterrupted \/ BuildAndRunFinally
    \/ LocalWriteOk \/ LocalWriteFails \/ LocalRunEnds \/ LocalRunInterrupted
    \/ CliExceptSetup \/ CliExceptUnexpected \/ CliExit \/ CliReturn \/ CliInterrupted
    \/ Del

Spec == Init /\ [][Next]_vars

\* the answers of the agent up to a length
MaxReplyLen == 4
Replies ==
    { r \in UNION { [1..n -> Tokens] : n \in 0..MaxReplyLen } :
        \A k \in 1..(Len(r) - 1) : ~(r[k] = FENCE /\ r[k + 1] = FENCE) }

\* coralize() from the request to the agent on, and the command up to the
\* point where it saves or runs what came back or raises typer.Exit: the
\* clone is made, the agent is created and answers
InitGenerate ==
    /\ pc = "agent_request"
    /\ run_mode = "docker" /\ output_dir = FALSE /\ agent_id = "a b"
    /\ temp_dir = "path" /\ dir_exists = TRUE /\ exc = "none"
    /\ exit_status = "running" /\ printed = <<>> /\ ops = <<>>
    /\ cl_ret = "idle" /\ retries = 0
    /\ response_content \in Replies
    /\ parse_pc = "idle" /\ parse_result = <<>> /\ parse_printed = <<>>
    /\ dock_in = {"requirements.txt"}
    /\ dock_pc = "idle" /\ dockerfile = <<>> /\ dock_printed = <<>>
    /\ CtxIdle /\ TreeIdle /\ ReqIdle

NextGenerate ==
    \/ CleanupBegin \/ CleanupRemoved
    \/ CleanupPermissionError \/ CleanupOtherError \/ CleanupInterrupted
    \/ AgentRequestWrapper \/ AgentRequestUnparsable
    \/ GenerationFailed \/ CoralizeReturns
    \/ CliGenerationFailed \/ CliDispatch

SpecGenerate == InitGenerate /\ [][NextGenerate]_vars

\* build_and_run alone: of the GitHub coralizer, called by the command in
\* docker mode after coralize() returned, or of the MCP coralizer
InitBuild ==
    /\ \/ /\ pc = "br_write"
          /\ agent_id \in AgentIds
          /\ temp_dir = "path" /\ dir_exists = TRUE
       \/ /\ pc = "mcp_key"
          /\ agent_id \in AgentIds \ {"None"}
          /\ temp_dir = "None" /\ dir_exists = FALSE
    /\ run_mode = "docker" /\ output_dir = FALSE /\ exc = "none"
    /\ exit_status = "running" /\ printed = <<>> /\ ops = <<>>
    /\ cl_ret = "idle" /\ retries = 0
    /\ CtxIdle /\ TreeIdle /\ ParseIdle /\ DockIdle /\ ReqIdle

NextBuild ==
    \/ CleanupNothing \/ CleanupBegin \/ CleanupRemoved
    \/ CleanupPermissionError \/ CleanupOtherError \/ CleanupInterrupted
    \/ BuildWriteOk \/ BuildWriteFails \/ BuildWriteInterrupted \/ BuildImageName
    \/ BuildOk \/ BuildFails \/ BuildNoDocker \/ BuildInterrupted
    \/ RunOk \/ RunFails \/ RunInterrupted \/ BuildAndRunFinally
    \/ CliExceptUnexpected \/ CliExit \/ CliReturn \/ CliInterrupted
    \/ Del
    \/ McpNoApiKey \/ McpTemporaryDirectory \/ McpWriteOk \/ McpWriteFails
    \/ McpBuildOk \/ McpBuildFails \/ McpNoDocker \/ McpBuildInterrupted
    \/ McpRunOk \/ McpRunFails \/ McpRunInterrupted \/ McpWithExit

SpecBuild == InitBuild /\ [][NextBuild]_vars

\* the local runs of the two commands: coralize_github when coralize() has
\* returned its artifacts, coralize_mcp when the wrapper is generated
InitLocal ==
    /\ \/ /\ pc = "local_write"
          /\ temp_dir = "path" /\ dir_exists = TRUE
       \/ /\ pc = "mcp_local_write"
          /\ temp_dir = "None" /\ dir_exists = FALSE
    /\ agent_id \in AgentIds \ {"None"}
    /\ run_mode = "local" /\ output_dir = FALSE /\ exc = "none"
    /\ exit_status = "running" /\ printed = <<>> /\ ops = <<>>
    /\ cl_ret = "idle" /\ retries = 0
    /\ CtxIdle /\ TreeIdle /\ ParseIdle /\ DockIdle /\ ReqIdle

NextLocal ==
    \/ CleanupNothing \/ CleanupBegin \/ CleanupRemoved
    \/ CleanupPermissionError \/ CleanupOtherError \/ CleanupInterrupted
    \/ LocalWriteOk \/ LocalWriteFails \/ LocalRunEnds \/ LocalRunInterrupted
    \/ CliExceptSetup \/ CliExit \/ CliReturn \/ CliInterrupted
    \/ Del
    \/ McpLocalWrite \/ McpLocalRunEnds \/ McpLocalRunInterrupted

SpecLocal == InitLocal /\ [][NextLocal]_vars

\* the command, every step of which is taken in the end: the program runs
\* on until it ends
SpecLive == Init /\ [][Next]_vars /\ WF_vars(Next)

\* each command has constructed its coralizer; nothing else is on the
\* temp root or known to the daemon
InitConcurrent ==
    /\ req_pc = [r \in Reqs |-> "mkdtemp"]
    /\ req_agent_id \in [Reqs -> ReqAgentIds]
    /\ req_temp_dir = [r \in Reqs |-> "None"]
    /\ tmp_dirs = {} /\ images = {} /\ containers = {} /\ docker_cmds = {}
    /\ CtxIdle /\ TreeIdle /\ ParseIdle /\ DockIdle /\ PipeIdle

NextConcurrent == (\E r \in Reqs : ReqStep(r)) /\ UNCHANGED notReq

SpecConcurrent == InitConcurrent /\ [][NextConcurrent]_vars

InitContext ==
    /\ TreeIdle /\ ParseIdle /\ DockIdle /\ PipeIdle /\ ReqIdle
    /\ repo_files \in [CtxPaths -> FileStates]
    /\ repo_files[".git/hook.py"].kind \in {"absent", "file"}
    /\ ctx_pc = "priority" /\ ctx_i = 1 /\ ctx_todo = {} /\ ctx_cur = ""
    /\ code_context = <<>> /\ total_chars = 0 /\ files_read = 0
    /\ processed_files = {} /\ ctx_printed = <<>>

NextContext ==
    \/ CtxPriorityStep
    \/ CtxPriorityEnd
    \/ CtxEnterOthers
    \/ CtxOtherStep
    \/ CtxOthersEnd
    \/ CtxReturn

SpecContext == InitContext /\ [][NextContext]_vars

InitTree ==
    /\ tree_in \in TreeInputs
    /\ tree_pc = "walk"
    /\ tree_walk = os_walk(tree_in)
    /\ tree_str = <<>> /\ file_count = 0 /\ tree_printed = <<>>
    /\ CtxIdle
    /\ ParseIdle /\ DockIdle /\ PipeIdle /\ ReqIdle

NextTree == TreeDirStep \/ TreeFileStep \/ TreeReturn

SpecTree == InitTree /\ [][NextTree]_vars

InitParse ==
    /\ response_content \in Responses
    /\ parse_pc = "call" /\ parse_result = <<>> /\ parse_printed = <<>>
    /\ CtxIdle
    /\ TreeIdle /\ DockIdle /\ PipeIdle /\ ReqIdle

NextParse == ParseFence \/ ParseRaw \/ ParseFail

SpecParse == InitParse /\ [][NextParse]_vars

InitDockerfile ==
    /\ dock_in \in DockInputs
    /\ dock_pc = "call" /\ dockerfile = <<>> /\ dock_printed = <<>>
    /\ CtxIdle
    /\ TreeIdle /\ ParseIdle /\ PipeIdle /\ ReqIdle

NextDockerfile == generate_dockerfile

SpecDockerfile == InitDockerfile /\ [][NextDockerfile]_vars

====
